---- MODULE Spec2Model ----
(***************************************************************************)
(* Model of the trusttls certificate lifecycle engine:                     *)
(*   - the DigiCert signed-REST provider (internal/acme/digicert.go),      *)
(*   - the renewal engine (internal/renewal/renewal.go),                   *)
(*   - the certificate and credential stores (internal/store).             *)
(* Two specifications are given: SpecDigi steps one ObtainCertificate call *)
(* request by request; Spec runs the renewal engine over the stores.       *)
(***************************************************************************)
EXTENDS Integers, Sequences, FiniteSets, TLC

(***************************************************************************)
(* Bounds of the model (not program constants).                            *)
(***************************************************************************)
\* largest value of the wall clock used for the X-DC-TIMESTAMP header
MaxTs == 2

(***************************************************************************)
(* Program constants.                                                      *)
(***************************************************************************)
\* digicert.go:237  for i := 0; i < 30; i++
MaxPollAttempts == 30
\* net/http status codes the code compares against
StatusCreated == 201
StatusOK == 200

(***************************************************************************)
(* Values.                                                                 *)
(***************************************************************************)
Nil == [kind |-> "nil"]
NoErr == [kind |-> "nil"]
Err(msg) == [kind |-> "error", msg |-> msg]
IsErr(e) == e.kind = "error"
\* fmt.Errorf("...: %w", err)
Wrap(prefix, e) == [kind |-> "error", msg |-> prefix, cause |-> e]

\* an optional value
None == [some |-> FALSE]
Some(v) == [some |-> TRUE, val |-> v]

\* a request body: nil, or the bytes of a marshalled value
NilBody == [isnil |-> TRUE]
Bytes(v) == [isnil |-> FALSE, data |-> v]

\* File contents and PEM text are sequences of chunks. A chunk is a PEM block
\* holding a certificate (serial number, NotAfter), a PEM block holding
\* something x509 cannot parse, or text that is no PEM block.
CertPEM(sn, notAfter) == [pem |-> TRUE, der |-> TRUE, sn |-> sn, notAfter |-> notAfter]
BadDER == [pem |-> TRUE, der |-> FALSE]
NotPEM == [pem |-> FALSE]


(***************************************************************************)
(* DigiCert signed-REST provider: internal/acme/digicert.go                *)
(***************************************************************************)
\* HMAC secrets, key identifiers and order ids the environment can supply
HMACKeys == {"secret1", "secret2"}
HMACIDs == {"", "hmacid1"}
OrgIDs == {"", "org1"}
\* private keys rsa.GenerateKey can return
PrivKeys == {"key1", "key2"}
OrderIDs == {"ord1", "ord2"}
\* arguments of ObtainCertificate
DomainLists == {<< >>, <<"a.com">>, <<"b.com", "a.com">>}
\* remote order statuses: the three of the protocol and one outside it
PollStatuses == {"pending", "issued", "failed", "processing"}
ServerCerts == { << CertPEM(1, 31) >>, << NotPEM >> }
IntermediateCerts == { << CertPEM(100, 365) >>, << CertPEM(101, 365) >> }
\* DCV method lists a server can answer with
DCVMethod(type, token) == [Type |-> type, Token |-> token]
DCVLists ==
  { << >>,
    << DCVMethod("dns", "t0") >>,
    << DCVMethod("http", "t1") >>,
    << DCVMethod("dns", "t0"), DCVMethod("http", "t1"), DCVMethod("http", "t2") >>,
    << DCVMethod("email", "t3"), DCVMethod("dns", "t0") >> }

VARIABLES
  config,      \* DigiCertProvider.config
  dpc,         \* position of the ObtainCertificate call
  domains,     \* its argument
  privateKey,  \* the key generated by the call
  csr,         \* the CSR generated by the call
  orderResp,   \* DigiCertOrderResponse of createOrder
  i,           \* loop counter of waitForCertificate
  lastPoll,    \* the last poll result waitForCertificate looked at
  steps,       \* the steps the call has started, in order
  nreq,        \* requests handed to the HTTP client, by kind
  signed,      \* the distinct signed requests handed to the HTTP client
  stdout,      \* what handleDCV printed
  respCode,    \* resp.StatusCode of the last response of each kind (0: none)
  dcvMethods,  \* the list handleDCV decoded (nil when it decoded none)
  clock,       \* time.Now()
  ret          \* what ObtainCertificate returned

dvars == << config, dpc, domains, privateKey, csr, orderResp, i, lastPoll,
            steps, nreq, signed, stdout, respCode, dcvMethods, clock, ret >>

VARIABLES
  renewalDir,  \* whether {DefaultBaseDir}/renewal exists
  configs,     \* the file renewal/{domain}.yaml, per domain
  accounts,    \* accounts/{provider}/{email}/credentials.json, per base directory
  live,        \* live/{domain}/, per base directory
  archive,     \* archive/{domain}/, per base directory: a set of snapshots
  now,         \* the clock, in days
  pc,          \* position of the RunAll invocation: "idle", "walk", "done"
  queue,       \* the directory entries WalkDir has still to visit
  errs,        \* errs of RunAll
  trace,       \* per domain, what the current run did for it
  result,      \* what RunAll returned
  runs         \* RunAll invocations so far

rvars == << renewalDir, configs, accounts, live, archive, now, pc, queue, errs,
            trace, result, runs >>

VARIABLES
  op,          \* the last call made on the stores, with what it returned
  savedCreds,  \* per base directory, provider and email: the last creds a
               \* SaveAccount that succeeded was given
  savedCfgs,   \* per domain: the last config a renewal.Save that succeeded was given
  nops         \* calls made on the stores so far

svars == << op, savedCreds, savedCfgs, nops >>

VARIABLES
  challenge,   \* {root}/.well-known/acme-challenge/{token}, per webroot and token
  nch          \* calls made on the challenge responder so far

wvars == << challenge, nch >>

VARIABLES
  spc,         \* per process, the position of its SaveCertificate call and
               \* the resource it was given
  overlapped   \* whether one of these calls began while the other was under way

cvars == << spc, overlapped >>

VARIABLES
  tls,         \* per web server, the TLS config file its installer writes for the domain
  nsetup       \* runs of the setup flow so far

ivars == << tls, nsetup >>

xvars == << wvars, cvars, ivars >>

vars == << dvars, rvars, svars, xvars >>

\* x509.CreateCertificateRequest + pem.EncodeToMemory
generateCSR(commonName, dnsNames, key) ==
  [Type |-> "CERTIFICATE REQUEST", CommonName |-> commonName,
   DNSNames |-> dnsNames, SignedBy |-> key, SignatureAlgorithm |-> "SHA256WithRSA"]

\* pem.EncodeToMemory(RSA PRIVATE KEY, MarshalPKCS1PrivateKey(k))
MarshalPrivateKeyToPEM(key) ==
  << [pem |-> TRUE, der |-> FALSE, Type |-> "RSA PRIVATE KEY", Bytes |-> key] >>

\* the order request ObtainCertificate builds
OrderRequest(doms, csrPEM, cfg) ==
  [CommonName |-> doms[1], DNSNames |-> doms, SignatureHash |-> "sha256",
   KeySize |-> 2048, CSR |-> csrPEM, OrganizationID |-> cfg.OrganizationID,
   ValidityYears |-> 1]

\* hex(HMAC-SHA256(key, msg)), as a collision-free function of key and message
HMACSHA256Hex(key, msg) == [hmac |-> key, over |-> msg]

\* sigString of signRequest: METHOD \n PATH, and \n BODY when body != nil
SigString(method, path, body) ==
  IF ~body.isnil
    THEN << method, "\n", path, "\n", body >>
    ELSE << method, "\n", path >>

\* signRequest with the timestamp header value signed as well
signRequest_SignsTimestamp(req, body, cfg, timestamp) ==
  [ req EXCEPT !.Header =
      [ DEVKEY |-> cfg.APIKey,
        TIMESTAMP |-> timestamp,
        SIGNATURE |-> HMACSHA256Hex(cfg.HMACKey,
                         SigString(req.Method, req.Path, body) \o << "\n", [ts |-> timestamp] >>),
        HMACID |-> IF cfg.HMACID # "" THEN << cfg.HMACID >> ELSE << >> ] ]

\* signRequest: the request with its headers set; timestamp is
\* time.Now().UTC().Format(time.RFC3339)
signRequest(req, body, cfg, timestamp) ==
  [ req EXCEPT !.Header =
      [ DEVKEY |-> cfg.APIKey,
        TIMESTAMP |-> timestamp,
        SIGNATURE |-> HMACSHA256Hex(cfg.HMACKey,
                         SigString(req.Method, req.Path, body)),
        HMACID |-> IF cfg.HMACID # "" THEN << cfg.HMACID >> ELSE << >> ] ]

\* http.NewRequest(method, ServerURL + path, nil); Path is req.URL.Path
NewRequest(method, path) ==
  [Method |-> method, Path |-> path, Body |-> NilBody, Header |-> << >>]

\* what client.Do can come back with: a transport error, or a response with a
\* status code and a body that json can or cannot decode
TransportError == [err |-> TRUE]
Response(code, body) == [err |-> FALSE, StatusCode |-> code, Body |-> body]
JSON(v) == [ok |-> TRUE, val |-> v]
BadJSON == [ok |-> FALSE]

\* resp.StatusCode where there is a response, -1 for a transport error
StatusOf(resp) == IF resp.err THEN -1 ELSE resp.StatusCode
\* the response has status `code` and a body json decodes
Decoded(resp, code) == ~resp.err /\ resp.StatusCode = code /\ resp.Body.ok

Result(val, e) == [val |-> val, err |-> e]

\* createOrder, from the response of the POST on
createOrder_Accepts200(resp) ==
  IF resp.err THEN Result(Nil, Err("transport"))
  ELSE IF resp.StatusCode \notin {StatusCreated, StatusOK}
    THEN Result(Nil, Err("unexpected status code"))
  ELSE IF ~resp.Body.ok THEN Result(Nil, Err("json"))
  ELSE Result(resp.Body.val, NoErr)
createOrder(resp) ==
  IF resp.err THEN Result(Nil, Err("transport"))
  ELSE IF resp.StatusCode # StatusCreated
    THEN Result(Nil, Err("unexpected status code"))
  ELSE IF ~resp.Body.ok THEN Result(Nil, Err("json"))
  ELSE Result(resp.Body.val, NoErr)

\* the loop of handleDCV: index of the first method of type "http", 0 if none
FindHTTPDCV_Last(methods) ==
  LET hits == { k \in 1..Len(methods) : methods[k].Type = "http" }
  IN  IF hits = {} THEN 0 ELSE CHOOSE k \in hits : \A m \in hits : m <= k
FindHTTPDCV(methods) ==
  LET hits == { k \in 1..Len(methods) : methods[k].Type = "http" }
  IN  IF hits = {} THEN 0 ELSE CHOOSE k \in hits : \A m \in hits : k <= m

\* handleDCV, from the response of the GET on; val is the token it prints
handleDCV(resp) ==
  IF resp.err THEN Result(Nil, Err("transport"))
  ELSE IF resp.StatusCode # StatusOK THEN Result(Nil, Err("failed to get DCV details"))
  ELSE IF ~resp.Body.ok THEN Result(Nil, Err("json"))
  ELSE LET k == FindHTTPDCV(resp.Body.val)
       IN  IF k = 0 THEN Result(Nil, Err("HTTP DCV method not available"))
           ELSE Result([Token |-> resp.Body.val[k].Token], NoErr)

\* getCertificate, from the response of the GET on
getCertificate(resp) ==
  IF resp.err THEN Result(Nil, Err("transport"))
  ELSE IF resp.StatusCode # StatusOK THEN Result(Nil, Err("unexpected status code"))
  ELSE IF ~resp.Body.ok THEN Result(Nil, Err("json"))
  ELSE Result(resp.Body.val, NoErr)

\* the loop condition of waitForCertificate
PollAgain_OffByOne(n) == n <= MaxPollAttempts
PollAgain(n) == n < MaxPollAttempts

\* the body of the loop of waitForCertificate after getCertificate returned:
\* "return" with a result, or "sleep" and go round again
PollStep_IgnoresFailed(got) ==
  IF IsErr(got.err) THEN [do |-> "return", res |-> Result(Nil, got.err)]
  ELSE IF got.val.Status = "issued" THEN [do |-> "return", res |-> Result(got.val, NoErr)]
  ELSE [do |-> "sleep"]
PollStep(got) ==
  IF IsErr(got.err) THEN [do |-> "return", res |-> Result(Nil, got.err)]
  ELSE IF got.val.Status = "issued" THEN [do |-> "return", res |-> Result(got.val, NoErr)]
  ELSE IF got.val.Status = "failed"
    THEN [do |-> "return", res |-> Result(Nil, Err("certificate issuance failed"))]
  ELSE [do |-> "sleep"]

\* the certificate.Resource ObtainCertificate assembles
Resource_KeyFromServer(doms, cert, key) ==
  [Domain |-> doms[1], Certificate |-> cert.ServerCert,
   PrivateKey |-> cert.PrivateKey, IssuerCertificate |-> cert.IntermediateCert]
Resource(doms, cert, key) ==
  [Domain |-> doms[1], Certificate |-> cert.ServerCert,
   PrivateKey |-> MarshalPrivateKeyToPEM(key),
   IssuerCertificate |-> cert.IntermediateCert]

\* ---- what the remote side can answer ----
NoKey == << >>
DigiCertCertificate(status, server, intermediate) ==
  [Status |-> status, ServerCert |-> server, IntermediateCert |-> intermediate,
   PrivateKey |-> NoKey]
PollCerts ==
  { DigiCertCertificate("issued", sc, ic) : sc \in ServerCerts, ic \in IntermediateCerts }
  \cup { DigiCertCertificate(st, << >>, << >>) : st \in PollStatuses \ {"issued"} }
PollResponses ==
  { TransportError, Response(500, BadJSON), Response(StatusOK, BadJSON) }
  \cup { Response(StatusOK, JSON(c)) : c \in PollCerts }
OrderResponses ==
  { TransportError, Response(400, BadJSON), Response(StatusCreated, BadJSON) }
  \cup { Response(code, JSON([OrderID |-> o, Status |-> "pending"])) :
           code \in {StatusCreated, StatusOK}, o \in OrderIDs }
DCVResponses ==
  { TransportError, Response(404, BadJSON), Response(StatusOK, BadJSON) }
  \cup { Response(StatusOK, JSON(l)) : l \in DCVLists }

NoReq == [post |-> 0, dcv |-> 0, poll |-> 0]

\* ObtainCertificate up to its first request: the argument check, the key, the CSR
ObtainStart ==
  /\ UNCHANGED << rvars, svars, xvars >>
  /\ dpc = "idle"
  /\ \E doms \in DomainLists, key \in PrivKeys, keyOK \in BOOLEAN, csrOK \in BOOLEAN :
       /\ domains' = doms
       /\ IF Len(doms) = 0
            THEN /\ ret' = Result(Nil, Err("at least one domain required"))
                 /\ dpc' = "done"
                 /\ UNCHANGED << privateKey, csr, steps >>
          ELSE IF ~keyOK
            THEN /\ ret' = Result(Nil, Wrap("failed to generate private key", Err("rand")))
                 /\ dpc' = "done"
                 /\ steps' = << "keycsr" >>
                 /\ UNCHANGED << privateKey, csr >>
          ELSE IF ~csrOK
            THEN /\ ret' = Result(Nil, Wrap("failed to generate CSR", Err("x509")))
                 /\ dpc' = "done"
                 /\ steps' = << "keycsr" >>
                 /\ privateKey' = key
                 /\ UNCHANGED csr
          ELSE /\ privateKey' = key
               /\ csr' = generateCSR(doms[1], doms, key)
               /\ steps' = << "keycsr" >>
               /\ dpc' = "order"
               /\ UNCHANGED ret
  /\ UNCHANGED << config, orderResp, i, lastPoll, nreq, signed, stdout, respCode,
                  dcvMethods, clock >>

\* p.createOrder(orderReq) and what ObtainCertificate does with its result
StepCreateOrder ==
  /\ UNCHANGED << rvars, svars, xvars >>
  /\ dpc = "order"
  /\ \E tstamp \in clock..MaxTs, resp \in OrderResponses :
       LET body == Bytes(OrderRequest(domains, csr, config))
           req == [ signRequest(NewRequest("POST", << "certificates" >>), body, config, tstamp)
                      EXCEPT !.Body = body ]
           r == createOrder(resp)
       IN  /\ clock' = tstamp
           /\ signed' = signed \cup {req}
           /\ nreq' = [nreq EXCEPT !.post = @ + 1]
           /\ respCode' = [respCode EXCEPT !.post = StatusOf(resp)]
           /\ steps' = Append(steps, "createOrder")
           /\ IF IsErr(r.err)
                THEN /\ ret' = Result(Nil, Wrap("failed to create order", r.err))
                     /\ dpc' = "done"
                     /\ UNCHANGED orderResp
                ELSE /\ orderResp' = r.val
                     /\ dpc' = "dcv"
                     /\ UNCHANGED ret
  /\ UNCHANGED << config, domains, privateKey, csr, i, lastPoll, stdout, dcvMethods >>

\* p.handleDCV(orderResp.OrderID, domains[0]) and what ObtainCertificate does with it
StepHandleDCV ==
  /\ UNCHANGED << rvars, svars, xvars >>
  /\ dpc = "dcv"
  /\ \E tstamp \in clock..MaxTs, resp \in DCVResponses :
       LET req == signRequest(NewRequest("GET", << "certificates", orderResp.OrderID, "dcv" >>),
                              NilBody, config, tstamp)
           r == handleDCV(resp)
       IN  /\ clock' = tstamp
           /\ signed' = signed \cup {req}
           /\ nreq' = [nreq EXCEPT !.dcv = @ + 1]
           /\ respCode' = [respCode EXCEPT !.dcv = StatusOf(resp)]
           /\ dcvMethods' = IF Decoded(resp, StatusOK) THEN Bytes(resp.Body.val) ELSE NilBody
           /\ IF IsErr(r.err)
                THEN /\ ret' = Result(Nil, Wrap("failed to handle DCV", r.err))
                     /\ dpc' = "done"
                     /\ steps' = Append(steps, "handleDCV")
                     /\ UNCHANGED stdout
                ELSE /\ stdout' = Append(stdout, r.val.Token)
                     /\ steps' = steps \o << "handleDCV", "waitForCertificate" >>
                     /\ dpc' = "wait"
                     /\ UNCHANGED ret
  /\ UNCHANGED << config, domains, privateKey, csr, orderResp, i, lastPoll >>

\* what ObtainCertificate does with the result of waitForCertificate
Finish(w) ==
  IF IsErr(w.err)
    THEN /\ ret' = Result(Nil, Wrap("failed to get certificate", w.err))
         /\ UNCHANGED steps
    ELSE /\ ret' = Result(Resource(domains, w.val, privateKey), NoErr)
         /\ steps' = Append(steps, "assemble")

\* one round of the loop of waitForCertificate: getCertificate, then the status
StepPoll ==
  /\ UNCHANGED << rvars, svars, xvars >>
  /\ dpc = "wait"
  /\ PollAgain(i)
  /\ \E tstamp \in clock..MaxTs, resp \in PollResponses :
       LET req == signRequest(NewRequest("GET", << "certificates", orderResp.OrderID >>),
                              NilBody, config, tstamp)
           got == getCertificate(resp)
           step == PollStep(got)
       IN  /\ clock' = tstamp
           /\ signed' = signed \cup {req}
           /\ nreq' = [nreq EXCEPT !.poll = @ + 1]
           /\ respCode' = [respCode EXCEPT !.poll = StatusOf(resp)]
           /\ lastPoll' = got
           /\ IF step.do = "return"
                THEN /\ Finish(step.res)
                     /\ dpc' = "done"
                     /\ UNCHANGED i
                ELSE /\ i' = i + 1
                     /\ UNCHANGED << ret, steps, dpc >>
  /\ UNCHANGED << config, domains, privateKey, csr, orderResp, stdout, dcvMethods >>

\* the loop of waitForCertificate runs out
StepTimeout ==
  /\ UNCHANGED << rvars, svars, xvars >>
  /\ dpc = "wait"
  /\ ~PollAgain(i)
  /\ Finish(Result(Nil, Err("timeout waiting for certificate")))
  /\ dpc' = "done"
  /\ UNCHANGED << config, domains, privateKey, csr, orderResp, i, lastPoll,
                  nreq, signed, stdout, respCode, dcvMethods, clock >>

DigiNext ==
  \/ ObtainStart
  \/ StepCreateOrder
  \/ StepHandleDCV
  \/ StepPoll
  \/ StepTimeout


(***************************************************************************)
(* Properties of the DigiCert REST provider, checked under SpecDigi.       *)
(***************************************************************************)
Returned == dpc = "done"
Succeeded == Returned /\ ~IsErr(ret.err)
PollSaw(status) ==
  /\ nreq.poll > 0
  /\ ~IsErr(lastPoll.err)
  /\ lastPoll.val.Status = status
PollSawOther ==
  /\ nreq.poll > 0
  /\ ~IsErr(lastPoll.err)
  /\ lastPoll.val.Status \notin {"issued", "failed"}
WaitError(msg) == Result(Nil, Wrap("failed to get certificate", Err(msg)))

\* C5: in waitForCertificate a poll that observes "issued" ends the wait with
\* success and that certificate, one that observes "failed" ends it with the
\* issuance-failed error, any other status leaves the wait polling while
\* attempts remain; success implies a poll observed "issued"; no poll follows
\* a poll that observed "issued" or "failed".
C5_PollDecides ==
  /\ [](/\ PollSaw("issued") =>
             /\ Succeeded
             /\ ret.val.Certificate = lastPoll.val.ServerCert
             /\ ret.val.IssuerCertificate = lastPoll.val.IntermediateCert
        /\ PollSaw("failed") =>
             /\ Returned
             /\ ret = WaitError("certificate issuance failed")
        /\ (PollSawOther /\ nreq.poll < MaxPollAttempts) =>
             /\ dpc = "wait"
             /\ ENABLED StepPoll
        /\ Succeeded => PollSaw("issued"))
  /\ [][(PollSaw("issued") \/ PollSaw("failed")) => nreq'.poll = nreq.poll]_dvars

\* C5 witness: the wait ended with success after two polls that saw another status
C5_Witness ==
  /\ Succeeded
  /\ PollSaw("issued")
  /\ nreq.poll = 3

\* C6: waitForCertificate never sends more than 30 polls; when every poll
\* answered a status other than "issued" and "failed" it has sent exactly 30
\* when it returns, and what it returns is the timeout error; after the 30th
\* such poll only the timeout return is possible.
C6_ThirtyPolls ==
  /\ nreq.poll <= 30
  /\ (Returned /\ stdout # << >> /\ i = nreq.poll) =>
       /\ nreq.poll = 30
       /\ ret = WaitError("timeout waiting for certificate")
  /\ (ret = WaitError("timeout waiting for certificate")) => nreq.poll = 30
  /\ (dpc = "wait" /\ nreq.poll = 30) => (ENABLED StepTimeout /\ ~ENABLED StepPoll)

\* C6 witness: the call returned the timeout error after 30 polls
C6_Witness ==
  /\ Returned
  /\ ret = WaitError("timeout waiting for certificate")
  /\ nreq.poll = 30
  /\ PollSawOther

IsPrefix(a, b) == Len(a) <= Len(b) /\ a = SubSeq(b, 1, Len(a))
CallOrder == << "keycsr", "createOrder", "handleDCV", "waitForCertificate", "assemble" >>

\* C7: one ObtainCertificate call starts its steps in the order key+CSR,
\* createOrder, handleDCV, waitForCertificate, assemble, each only after the
\* one before succeeded; the order POST and the DCV GET are sent at most once
\* each; createOrder succeeds only on HTTP 201; a failing step (a transport
\* error or a status the step does not accept, in any poll too) ends the call
\* with an error, and once the call has returned no request is sent.
C7_StepOrder ==
  /\ [](/\ IsPrefix(steps, CallOrder)
        /\ nreq.post <= 1 /\ nreq.dcv <= 1
        /\ nreq.post = 1 => (csr # Nil /\ privateKey # "")
        /\ nreq.dcv = 1 => (nreq.post = 1 /\ respCode.post = 201 /\ orderResp # Nil)
        /\ nreq.poll > 0 => (nreq.dcv = 1 /\ respCode.dcv = 200 /\ stdout # << >>)
        /\ (nreq.post = 1 /\ respCode.post # 201) =>
             (Returned /\ IsErr(ret.err) /\ nreq.dcv = 0 /\ nreq.poll = 0)
        /\ (nreq.dcv = 1 /\ respCode.dcv # 200) =>
             (Returned /\ IsErr(ret.err) /\ nreq.poll = 0)
        /\ (nreq.poll > 0 /\ respCode.poll # 200) => (Returned /\ IsErr(ret.err))
        /\ IsErr(ret.err) => (Returned /\ "assemble" \notin { steps[k] : k \in 1..Len(steps) })
        /\ Succeeded => steps = CallOrder)
  /\ [][Returned => (nreq' = nreq /\ steps' = steps)]_dvars

\* C7 witness: a call that went through all five steps, polling more than once
C7_Witness ==
  /\ Succeeded
  /\ steps = CallOrder
  /\ nreq = [post |-> 1, dcv |-> 1, poll |-> 2]

PollRequests == { r \in signed : r.Method = "GET" /\ Len(r.Path) = 2 }
PostRequests == { r \in signed : r.Method = "POST" }

\* C8: ObtainCertificate returns a resource only when a poll of the order it
\* created observed "issued"; then the leaf and issuer are the server and
\* intermediate certificate of that poll response, the private key is the PEM
\* of the key generated by this call, which is the key of the CSR it posted,
\* and the domain is domains[0]; when it returns an error it returns no resource.
C8_Resource ==
  /\ Succeeded =>
       /\ PollSaw("issued")
       /\ \A r \in PollRequests : r.Path = << "certificates", orderResp.OrderID >>
       /\ ret.val.Certificate = lastPoll.val.ServerCert
       /\ ret.val.IssuerCertificate = lastPoll.val.IntermediateCert
       /\ ret.val.PrivateKey =
            << [pem |-> TRUE, der |-> FALSE, Type |-> "RSA PRIVATE KEY", Bytes |-> privateKey] >>
       /\ \A r \in PostRequests : r.Body.data.CSR.SignedBy = privateKey
       /\ PostRequests # {}
       /\ ret.val.Domain = domains[1]
  /\ IsErr(ret.err) => ret.val = Nil
  /\ ~Returned => ret.val = Nil

\* C8 witness: a resource was returned for a call with two domains
C8_Witness ==
  /\ Succeeded
  /\ Len(domains) = 2
  /\ ret.val.Certificate = << CertPEM(1, 31) >>

HasHTTP(l) == \E k \in 1..Len(l) : l[k].Type = "http"

\* C9: handleDCV prints a token only when the DCV request answered HTTP 200
\* with a list holding a method of type "http"; the token is that of the first
\* such method in list order; when the list holds none the call ends with the
\* no-HTTP-DCV error and no poll is sent; no poll is sent unless a token was
\* printed.
C9_FirstHTTPMethod ==
  /\ stdout # << >> =>
       /\ respCode.dcv = 200
       /\ ~dcvMethods.isnil
       /\ \E k \in 1..Len(dcvMethods.data) :
            /\ dcvMethods.data[k].Type = "http"
            /\ \A j \in 1..(k - 1) : dcvMethods.data[j].Type # "http"
            /\ stdout = << dcvMethods.data[k].Token >>
  /\ (nreq.dcv = 1 /\ respCode.dcv = 200 /\ ~dcvMethods.isnil /\ ~HasHTTP(dcvMethods.data)) =>
       /\ Returned
       /\ ret = Result(Nil, Wrap("failed to handle DCV", Err("HTTP DCV method not available")))
       /\ nreq.poll = 0
  /\ (nreq.dcv = 1 /\ respCode.dcv = 200 /\ ~dcvMethods.isnil /\ HasHTTP(dcvMethods.data)) =>
       stdout # << >>
  /\ nreq.poll > 0 => stdout # << >>

\* C9 witness: the first "http" method came after a "dns" one and before another "http" one
C9_Witness ==
  /\ stdout = << "t1" >>
  /\ ~dcvMethods.isnil
  /\ Len(dcvMethods.data) = 3
  /\ dcvMethods.data[1].Type = "dns"

\* the string the claim says is signed for a request
ClaimedSigString(r) ==
  IF r.Body.isnil THEN << r.Method, "\n", r.Path >>
  ELSE << r.Method, "\n", r.Path, "\n", r.Body >>

\* C10: every signed request carries as signature the HMAC, under the
\* configured secret, of METHOD \n PATH when it has no body and of
\* METHOD \n PATH \n BODY when it has one; so two requests with the same
\* method, path and body carry the same signature, whatever their timestamps.
C10_Signature ==
  /\ \A r \in signed :
       r.Header.SIGNATURE = HMACSHA256Hex(config.HMACKey, ClaimedSigString(r))
  /\ \A r1, r2 \in signed :
       (r1.Method = r2.Method /\ r1.Path = r2.Path /\ r1.Body = r2.Body) =>
         r1.Header.SIGNATURE = r2.Header.SIGNATURE

\* C10 witness: two requests with the same method, path and body were signed
\* at different times, and a request with a body was signed
C10_Witness ==
  /\ \E r1, r2 \in signed :
       /\ r1.Method = r2.Method /\ r1.Path = r2.Path /\ r1.Body = r2.Body
       /\ r1.Header.TIMESTAMP # r2.Header.TIMESTAMP
  /\ \E r \in signed : ~r.Body.isnil

\* C11: two requests signed at different times never carry the same
\* signature, even with the same method, path, body and HMAC secret.
C11_FreshSignature ==
  \A r1, r2 \in signed :
    r1.Header.TIMESTAMP # r2.Header.TIMESTAMP =>
      r1.Header.SIGNATURE # r2.Header.SIGNATURE

(***************************************************************************)
(* Certificate store: internal/store/store.go                              *)
(***************************************************************************)
\* store.DefaultBaseDir() and one other base directory
DefaultBaseDir == "~/.trusttls"
OtherBaseDir == "/srv/tls"
BaseDirs == {DefaultBaseDir, OtherBaseDir}
Domains == {"a.com", "b.com"}
\* the domains in the lexical order of their file names
DomainOrder == << "a.com", "b.com" >>

NoFile == [exists |-> FALSE]
\* a file os.WriteFile(path, data, 0600) created (the umask leaves the owner's
\* bits alone)
File(data) == [exists |-> TRUE, data |-> data, mode |-> "0600"]
\* os.WriteFile(path, data, 0600) over what is at the path: the permission
\* argument only counts when the file is created
Written(old, data) == IF old.exists THEN [old EXCEPT !.data = data] ELSE File(data)
\* a directory of the store that does not exist
NoDir == [dir |-> FALSE, mode |-> "none", cert |-> NoFile, chain |-> NoFile, fullchain |-> NoFile,
          privkey |-> NoFile]

\* the points where SaveCertificate can meet an I/O error: 0 none, 1 the live
\* directory, 2..5 the live files cert, chain, fullchain, privkey, 6 the
\* archive directory; archFail: the archive files whose write fails
NoFault == [at |-> 0, archFail |-> {}]
FaultAt(n) == [at |-> n, archFail |-> {}]

\* os.WriteFile(path, data, 0600) under a fault: the file is left as it was
WriteFile(old, data, fails) == IF fails THEN old ELSE Written(old, data)

\* SaveCertificate, were it to archive the leaf alone as fullchain.pem
SaveCertificate_ArchivesLeaf(liveDir, arch, cert, fault, ts) ==
  LET fullchain == cert.Certificate \o cert.IssuerCertificate
      l1 == [liveDir EXCEPT !.dir = TRUE, !.mode = "0700"]
      l2 == [l1 EXCEPT !.cert = Written(@, cert.Certificate)]
      l3 == [l2 EXCEPT !.chain = Written(@, cert.IssuerCertificate)]
      l4 == [l3 EXCEPT !.fullchain = Written(@, fullchain)]
      l5 == IF Len(cert.PrivateKey) > 0
              THEN [l4 EXCEPT !.privkey = Written(@, cert.PrivateKey)] ELSE l4
      old == IF \E e \in arch : e.ts = ts
               THEN (CHOOSE e \in arch : e.ts = ts).files ELSE NoDir
      a1 == [old EXCEPT !.dir = TRUE, !.mode = "0700"]
      a2 == [ dir |-> TRUE, mode |-> "0700",
              cert |-> WriteFile(a1.cert, cert.Certificate, "cert" \in fault.archFail),
              chain |-> WriteFile(a1.chain, cert.IssuerCertificate, "chain" \in fault.archFail),
              fullchain |-> WriteFile(a1.fullchain, cert.Certificate,
                                     "fullchain" \in fault.archFail),
              privkey |-> WriteFile(a1.privkey, cert.PrivateKey, "privkey" \in fault.archFail) ]
      arch2 == { e \in arch : e.ts # ts } \cup { [ts |-> ts, files |-> a2] }
  IN  IF fault.at = 1 THEN [live |-> liveDir, archive |-> arch, err |-> Err("mkdir")]
      ELSE IF fault.at = 2 THEN [live |-> l1, archive |-> arch, err |-> Err("cert.pem")]
      ELSE IF fault.at = 3 THEN [live |-> l2, archive |-> arch, err |-> Err("chain.pem")]
      ELSE IF fault.at = 4 THEN [live |-> l3, archive |-> arch, err |-> Err("fullchain.pem")]
      ELSE IF fault.at = 5 /\ Len(cert.PrivateKey) > 0
        THEN [live |-> l4, archive |-> arch, err |-> Err("privkey.pem")]
      ELSE IF fault.at = 6 THEN [live |-> l5, archive |-> arch, err |-> Err("mkdir archive")]
      ELSE [live |-> l5, archive |-> arch2, err |-> NoErr]

\* SaveCertificate(baseDir, domain, cert) on the domain's live directory and
\* archive (a set of [ts, files] snapshots, one per timestamp); ts is
\* time.Now().Format("20060102-150405")
SaveCertificate(liveDir, arch, cert, fault, ts) ==
  LET fullchain == cert.Certificate \o cert.IssuerCertificate
      l1 == [liveDir EXCEPT !.dir = TRUE, !.mode = "0700"]
      l2 == [l1 EXCEPT !.cert = Written(@, cert.Certificate)]
      l3 == [l2 EXCEPT !.chain = Written(@, cert.IssuerCertificate)]
      l4 == [l3 EXCEPT !.fullchain = Written(@, fullchain)]
      l5 == IF Len(cert.PrivateKey) > 0
              THEN [l4 EXCEPT !.privkey = Written(@, cert.PrivateKey)] ELSE l4
      old == IF \E e \in arch : e.ts = ts
               THEN (CHOOSE e \in arch : e.ts = ts).files ELSE NoDir
      a1 == [old EXCEPT !.dir = TRUE, !.mode = "0700"]
      a2 == [ dir |-> TRUE, mode |-> "0700",
              cert |-> WriteFile(a1.cert, cert.Certificate, "cert" \in fault.archFail),
              chain |-> WriteFile(a1.chain, cert.IssuerCertificate, "chain" \in fault.archFail),
              fullchain |-> WriteFile(a1.fullchain, fullchain, "fullchain" \in fault.archFail),
              privkey |-> WriteFile(a1.privkey, cert.PrivateKey, "privkey" \in fault.archFail) ]
      arch2 == { e \in arch : e.ts # ts } \cup { [ts |-> ts, files |-> a2] }
  IN  IF fault.at = 1 THEN [live |-> liveDir, archive |-> arch, err |-> Err("mkdir")]
      ELSE IF fault.at = 2 THEN [live |-> l1, archive |-> arch, err |-> Err("cert.pem")]
      ELSE IF fault.at = 3 THEN [live |-> l2, archive |-> arch, err |-> Err("chain.pem")]
      ELSE IF fault.at = 4 THEN [live |-> l3, archive |-> arch, err |-> Err("fullchain.pem")]
      ELSE IF fault.at = 5 /\ Len(cert.PrivateKey) > 0
        THEN [live |-> l4, archive |-> arch, err |-> Err("privkey.pem")]
      ELSE IF fault.at = 6 THEN [live |-> l5, archive |-> arch, err |-> Err("mkdir archive")]
      ELSE [live |-> l5, archive |-> arch2, err |-> NoErr]

\* ParseCertExpiry: pem.Decode finds the first PEM block of the bytes,
\* x509.ParseCertificate reads it
ParseCertExpiry(pemBytes) ==
  LET blocks == { k \in 1..Len(pemBytes) : pemBytes[k].pem }
      first == CHOOSE k \in blocks : \A m \in blocks : k <= m
  IN  IF blocks = {} THEN Result(0, Err("no pem block"))
      ELSE IF ~pemBytes[first].der THEN Result(0, Err("x509"))
      ELSE Result(pemBytes[first].notAfter, NoErr)

(***************************************************************************)
(* Credential store: AccountManager (src/unnamed/part_000)                 *)
(***************************************************************************)
Emails == {"admin@a.com"}
CredFields == {"Email", "Server", "EABKID", "EABHMACKey", "HMACID", "HMACKey",
               "APIKey", "AccountID", "OrganizationID", "Provider"}
\* the fields tagged omitempty
OmitEmpty == CredFields \ {"Email", "Server", "Provider"}

\* json.MarshalIndent(creds): the object holds every field but the omitempty
\* ones that are empty
jsonMarshal(creds) ==
  LET present == { f \in CredFields : f \notin OmitEmpty \/ creds[f] # "" }
  IN  [f \in present |-> creds[f]]
\* json.Unmarshal into a zero AccountCredentials
jsonUnmarshal(obj) ==
  [f \in CredFields |-> IF f \in DOMAIN obj THEN obj[f] ELSE ""]

\* LoadAccount(email, provider) on the accounts of one base directory
LoadAccount(acc, email, provider) ==
  IF ~acc[provider][email].exists THEN Result(Nil, Err("open credentials.json"))
  ELSE Result(jsonUnmarshal(acc[provider][email].data), NoErr)

\* GetDigiCertConfig(email)
GetDigiCertConfig(acc, email) ==
  LET r == LoadAccount(acc, email, "digicert")
  IN  IF IsErr(r.err) THEN r
      ELSE IF r.val["Provider"] # "digicert"
        THEN Result(Nil, Err("account is not a DigiCert account"))
      ELSE Result([ServerURL |-> r.val["Server"], HMACID |-> r.val["HMACID"],
                   HMACKey |-> r.val["HMACKey"], APIKey |-> r.val["APIKey"],
                   AccountID |-> r.val["AccountID"],
                   OrganizationID |-> r.val["OrganizationID"]], NoErr)

\* the AccountCredentials SaveDigiCertAccount builds
DigiCertCreds(email, server, hmacID, hmacKey, apiKey, accountID, organizationID) ==
  [f \in CredFields |->
     CASE f = "Email" -> email
       [] f = "Server" -> server
       [] f = "HMACID" -> hmacID
       [] f = "HMACKey" -> hmacKey
       [] f = "APIKey" -> apiKey
       [] f = "AccountID" -> accountID
       [] f = "OrganizationID" -> organizationID
       [] f = "Provider" -> "digicert"
       [] OTHER -> ""]

\* GetDigiCertACMEConfig(email) of the manager of baseDir
GetDigiCertACMEConfig(acc, email, baseDir) ==
  LET r == LoadAccount(acc, email, "digicert")
  IN  IF IsErr(r.err) THEN r
      ELSE IF r.val["Provider"] # "digicert"
        THEN Result(Nil, Err("account is not a DigiCert account"))
      ELSE Result([ServerURL |-> r.val["Server"], EABKID |-> r.val["EABKID"],
                   EABHMACKey |-> r.val["EABHMACKey"], Email |-> r.val["Email"],
                   BaseDir |-> baseDir], NoErr)

\* the AccountCredentials SaveDigiCertACMEAccount builds
DigiCertACMECreds(email, server, eabKID, eabHMACKey, accountID, organizationID) ==
  [f \in CredFields |->
     CASE f = "Email" -> email
       [] f = "Server" -> server
       [] f = "EABKID" -> eabKID
       [] f = "EABHMACKey" -> eabHMACKey
       [] f = "AccountID" -> accountID
       [] f = "OrganizationID" -> organizationID
       [] f = "Provider" -> "digicert"
       [] OTHER -> ""]

\* the AccountCredentials SaveLetsEncryptAccount builds
LetsEncryptCreds(email, server) ==
  [f \in CredFields |->
     CASE f = "Email" -> email
       [] f = "Server" -> server
       [] f = "Provider" -> "letsencrypt"
       [] OTHER -> ""]

\* accounts/{provider}/{email}/ before anything was saved there
NoAccount == [exists |-> FALSE, dir |-> "none"]
\* the account directory after ensureDir(accountDir, 0700)
AccountDir(old) ==
  IF old.exists THEN [exists |-> TRUE, data |-> old.data, mode |-> old.mode, dir |-> "0700"]
  ELSE [exists |-> FALSE, dir |-> "0700"]
\* the account directory after credentials.json was written as well
AccountFile(old, data) ==
  [exists |-> TRUE, data |-> data, mode |-> Written(old, data).mode, dir |-> "0700"]

\* SaveAccount, were it to keep the stored value of every field the new
\* credentials leave empty
SaveAccount_Merges(acc, email, creds, fault) ==
  LET old == acc[creds["Provider"]][email]
      merged == IF old.exists
                  THEN [f \in CredFields |->
                          IF creds[f] = "" THEN jsonUnmarshal(old.data)[f] ELSE creds[f]]
                  ELSE creds
  IN  IF fault = "mkdir" THEN [accounts |-> acc, err |-> Err("mkdir")]
      ELSE IF fault = "write"
        THEN [accounts |-> [acc EXCEPT ![creds["Provider"]][email] = AccountDir(@)],
              err |-> Err("write credentials.json")]
      ELSE [accounts |-> [acc EXCEPT ![creds["Provider"]][email] =
                            AccountFile(@, jsonMarshal(merged))],
            err |-> NoErr]

\* SaveAccount, were it to keep every record in the DigiCert slot of the email
SaveAccount_OneSlot(acc, email, creds, fault) ==
  IF fault = "mkdir" THEN [accounts |-> acc, err |-> Err("mkdir")]
  ELSE IF fault = "write"
    THEN [accounts |-> [acc EXCEPT !["digicert"][email] = AccountDir(@)],
          err |-> Err("write credentials.json")]
  ELSE [accounts |-> [acc EXCEPT !["digicert"][email] =
                        AccountFile(@, jsonMarshal(creds))],
        err |-> NoErr]

\* SaveAccount(email, creds) on the accounts of one base directory; fault
\* names the call that fails: "mkdir" for ensureDir, "write" for os.WriteFile
SaveAccount(acc, email, creds, fault) ==
  IF fault = "mkdir" THEN [accounts |-> acc, err |-> Err("mkdir")]
  ELSE IF fault = "write"
    THEN [accounts |-> [acc EXCEPT ![creds["Provider"]][email] = AccountDir(@)],
          err |-> Err("write credentials.json")]
  ELSE [accounts |-> [acc EXCEPT ![creds["Provider"]][email] =
                        AccountFile(@, jsonMarshal(creds))],
        err |-> NoErr]

(***************************************************************************)
(* What the certificate authorities can do during one issuance.            *)
(***************************************************************************)
\* a poll script: `pending` polls answer "pending", every later one `then`
PollAnswer(script, n) ==
  IF n < script.pending
    THEN Response(StatusOK, JSON(DigiCertCertificate("pending", << >>, << >>)))
    ELSE script.then

RECURSIVE waitLoop(_, _)
\* one round of the loop of waitForCertificate, step being what its body decided
waitRound(n, script, step) ==
  IF step.do = "return" THEN [res |-> step.res, polls |-> n + 1]
  ELSE waitLoop(n + 1, script)
\* the loop of waitForCertificate from round n on; polls: the requests sent
waitLoop(n, script) ==
  IF ~PollAgain(n)
    THEN [res |-> Result(Nil, Err("timeout waiting for certificate")), polls |-> n]
    ELSE waitRound(n, script, PollStep(getCertificate(PollAnswer(script, n))))
waitForCertificate(script) == waitLoop(0, script)

\* the steps of ObtainCertificate: o, d and w are what createOrder, handleDCV
\* and waitForCertificate come back with, each called only if the one before
\* it succeeded
ObtainSteps(doms, key, o, d, w) ==
  IF IsErr(o.err)
    THEN [res |-> Result(Nil, Wrap("failed to create order", o.err)), requests |-> 1]
  ELSE IF IsErr(d.err)
    THEN [res |-> Result(Nil, Wrap("failed to handle DCV", d.err)), requests |-> 2]
  ELSE IF IsErr(w.res.err)
    THEN [res |-> Result(Nil, Wrap("failed to get certificate", w.res.err)),
          requests |-> 2 + w.polls]
  ELSE [res |-> Result(Resource(doms, w.res.val, key), NoErr),
        requests |-> 2 + w.polls]

\* ObtainCertificate as one call: key is what rsa.GenerateKey returns, srv what
\* the server answers to the order, the DCV request and the polls
ObtainCertificate(doms, key, cfg, srv) ==
  IF Len(doms) = 0
    THEN [res |-> Result(Nil, Err("at least one domain required")), requests |-> 0]
  ELSE ObtainSteps(doms, key, createOrder(srv.order), handleDCV(srv.dcv),
                   waitForCertificate(srv.poll))

(***************************************************************************)
(* Generic ACME provider: internal/acme/manager.go                         *)
(***************************************************************************)
\* alreadyRegistered(err), on the text of the registration error
alreadyRegistered(msg) ==
  msg \in {"already registered", "urn:ietf:params:acme:error:accountAlreadyExists"}

\* generateKey(kind, size): whether it knows the key type
generateKeyOK(kind) == kind \in {"rsa", "ecdsa"}

\* NewManager(opts): net.dir tells whether lego.NewClient reached the
\* directory, net.reg is the registration error text ("" for none)
NewManager(opts, net) ==
  IF opts.Email = "" \/ opts.Server = ""
    THEN [err |-> Err("email and server required"), requests |-> 0]
  ELSE IF ~generateKeyOK(IF opts.KeyType = "" THEN "rsa" ELSE opts.KeyType)
    THEN [err |-> Err("unknown key type"), requests |-> 0]
  ELSE IF ~net.dir THEN [err |-> Err("lego.NewClient"), requests |-> 1]
  ELSE IF net.reg # "" /\ ~alreadyRegistered(net.reg)
    THEN [err |-> Err(net.reg), requests |-> 2]
  ELSE [err |-> NoErr, requests |-> 2]

\* NewDigiCertACMEProvider(opts) (internal/acme/digicert_acme.go): net as for
\* NewManager; every error of RegisterWithEAB is wrapped and returned
NewDigiCertACMEProvider(opts, net) ==
  IF opts.EABKID = "" \/ opts.EABHMACKey = ""
    THEN [err |-> Err("EAB KID and HMAC key required"), requests |-> 0]
  ELSE IF ~generateKeyOK(IF opts.KeyType = "" THEN "rsa" ELSE opts.KeyType)
    THEN [err |-> Err("unknown key type"), requests |-> 0]
  ELSE IF ~net.dir THEN [err |-> Err("lego.NewClient"), requests |-> 1]
  ELSE IF net.reg # ""
    THEN [err |-> Wrap("failed to register with EAB", Err(net.reg)), requests |-> 2]
  ELSE [err |-> NoErr, requests |-> 2]

\* Manager.ObtainHTTP01(domains, webroot): the bundled resource lego returns
\* (Bundle: true puts the issuer after the leaf in Certificate), or its error;
\* the webroot provider refuses an empty root
ObtainHTTP01(doms, webroot, key, net) ==
  IF webroot = "" \/ ~net.obtain THEN Result(Nil, Err("obtain"))
  ELSE Result([Domain |-> doms[1], Certificate |-> net.leaf \o net.issuer,
               PrivateKey |-> MarshalPrivateKeyToPEM(key),
               IssuerCertificate |-> net.issuer], NoErr)

(***************************************************************************)
(* Renewal engine: internal/renewal/renewal.go                             *)
(***************************************************************************)
\* bounds: RunAll invocations, and the days the clock can advance
MaxRuns == 2
MaxNow == 1
\* renewal.go:67  30*24*time.Hour, in days
RenewBefore == 30
\* validity, in days, of the certificates the authorities issue
Validities == {30, 31}
Providers == {"digicert", "letsencrypt"}

ConfigFields == {"Domain", "Email", "Server", "Method", "Webroot", "DNSPlugin",
                 "KeyType", "KeySize", "Targets", "BaseDir", "Provider"}
\* the yaml key of each field of Config
yamlKey(f) ==
  CASE f = "Domain" -> "domain" [] f = "Email" -> "email" [] f = "Server" -> "server"
    [] f = "Method" -> "method" [] f = "Webroot" -> "webroot"
    [] f = "DNSPlugin" -> "dns_plugin" [] f = "KeyType" -> "key_type"
    [] f = "KeySize" -> "key_size" [] f = "Targets" -> "targets"
    [] f = "BaseDir" -> "base_dir" [] f = "Provider" -> "provider"
\* the zero value of each field
zeroOf(f) == IF f = "KeySize" THEN 0 ELSE IF f = "Targets" THEN << >> ELSE ""
\* yaml.Marshal(&cfg): one key per field
yamlMarshal(cfg) == [k \in { yamlKey(f) : f \in ConfigFields } |->
                       cfg[CHOOSE f \in ConfigFields : yamlKey(f) = k]]
\* yaml.Unmarshal(b, &c) into a zero Config
yamlUnmarshal(doc) ==
  [f \in ConfigFields |-> IF yamlKey(f) \in DOMAIN doc THEN doc[yamlKey(f)] ELSE zeroOf(f)]

Config(domain, method, provider, baseDir) ==
  [f \in ConfigFields |->
     CASE f = "Domain" -> domain
       [] f = "Email" -> "admin@a.com"
       [] f = "Server" -> "https://ca.example/directory"
       [] f = "Method" -> method
       [] f = "Webroot" -> IF method = "http-01" THEN "/var/www/html" ELSE ""
       [] f = "DNSPlugin" -> ""
       [] f = "KeyType" -> "rsa"
       [] f = "KeySize" -> 2048
       [] f = "Targets" -> << "nginx" >>
       [] f = "BaseDir" -> baseDir
       [] f = "Provider" -> provider]

\* the configs handed to renewal.Save: the two the setup flow writes
\* (install.go:352, install.go:440) and one that names the DigiCert provider
\* and a store of its own
SaveInputs ==
  { Config(d, "http-01", "", "") : d \in Domains \cup {""} }
  \cup { Config(d, "digicert", "", "") : d \in Domains }
  \cup { Config(d, "digicert", "digicert", OtherBaseDir) : d \in Domains }

\* load(path): the config of a file that could be read
load(file) ==
  LET c == yamlUnmarshal(file.data)
  IN  IF c["BaseDir"] = "" THEN [c EXCEPT !["BaseDir"] = DefaultBaseDir] ELSE c

\* due(domain) were it to compare with <=
due_AtThirtyDays(domain, lv, t) ==
  LET f == lv[DefaultBaseDir][domain].cert
      exp == ParseCertExpiry(f.data)
  IN  IF ~f.exists THEN TRUE
      ELSE IF IsErr(exp.err) THEN TRUE
      ELSE exp.val - t <= RenewBefore
\* due(domain) on the live store lv at time t
due(domain, lv, t) ==
  LET f == lv[DefaultBaseDir][domain].cert
      exp == ParseCertExpiry(f.data)
  IN  IF ~f.exists THEN TRUE
      ELSE IF IsErr(exp.err) THEN TRUE
      ELSE exp.val - t < RenewBefore

\* ---- what the world can do during one visit of the walk ----
HTTPThenDNS == << DCVMethod("dns", "t0"), DCVMethod("http", "t1") >>
Order201 == Response(StatusCreated, JSON([OrderID |-> "ord1", Status |-> "pending"]))
DCV200(l) == Response(StatusOK, JSON(l))
Issued(leaf, issuer) == Response(StatusOK, JSON(DigiCertCertificate("issued", leaf, issuer)))
Failed == Response(StatusOK, JSON(DigiCertCertificate("failed", << >>, << >>)))
IssuerCA == << CertPEM(100, 365) >>

\* one scenario: what the DigiCert API (dc) and the ACME server (le) answer
Scenario(kind, leaf) ==
  CASE kind = "ok" ->
         [dc |-> [order |-> Order201, dcv |-> DCV200(HTTPThenDNS),
                  poll |-> [pending |-> 1, then |-> Issued(leaf, IssuerCA)]],
          le |-> [dir |-> TRUE, reg |-> "", obtain |-> TRUE, leaf |-> leaf, issuer |-> IssuerCA]]
    [] kind = "reject" ->
         [dc |-> [order |-> Response(400, BadJSON), dcv |-> TransportError,
                  poll |-> [pending |-> 0, then |-> TransportError]],
          le |-> [dir |-> FALSE, reg |-> "", obtain |-> FALSE, leaf |-> leaf, issuer |-> IssuerCA]]
    [] kind = "timeout" ->
         [dc |-> [order |-> Order201, dcv |-> DCV200(HTTPThenDNS),
                  poll |-> [pending |-> MaxPollAttempts, then |-> Failed]],
          le |-> [dir |-> TRUE, reg |-> "", obtain |-> FALSE, leaf |-> leaf, issuer |-> IssuerCA]]

\* the leaf certificates an authority can issue at time t in run r
Leaves(t, r) ==
  { << CertPEM(r, t + v) >> : v \in Validities } \cup { << NotPEM >>, << BadDER >> }
Scenarios(t, r) ==
  { Scenario("ok", l) : l \in Leaves(t, r) }
  \cup { Scenario(k, << >>) : k \in {"reject", "timeout"} }
\* the store fault a visit can meet
StoreFault == FaultAt(3)
\* what a visit can meet: a config file that cannot be read, an authority's
\* answers with a working store, or an issuance with a failing store
Envs(t, r) ==
  { [loadOK |-> FALSE, scn |-> Scenario("reject", << >>), fault |-> NoFault] }
  \cup { [loadOK |-> TRUE, scn |-> sc, fault |-> NoFault] : sc \in Scenarios(t, r) }
  \cup { [loadOK |-> TRUE, scn |-> Scenario("ok", << CertPEM(r, t + RenewBefore) >>),
          fault |-> StoreFault] }

\* what a visit did for its domain
NoTrace == [visited |-> 0, loaded |-> FALSE, due |-> FALSE, attempts |-> 0,
            credLoads |-> 0, constructed |-> 0, requests |-> 0, saves |-> 0,
            cert |-> Nil, failed |-> FALSE, installed |-> << >>]

\* what renewOne leaves behind: its error, the stores, and the credential
\* loads, provider constructions, requests and store saves it made;
\* installed: the targets whose installer it called, none on any path, as
\* renewOne never reads c.Targets
RenewOut(e, lv, ar, loads, built, reqs, saves, cert) ==
  [err |-> e, live |-> lv, archive |-> ar, credLoads |-> loads, constructed |-> built,
   requests |-> reqs, saves |-> saves, cert |-> cert, installed |-> << >>]

\* store.SaveCertificate(c.BaseDir, c.Domain, cert) on the stores
saveTo(c, lv, ar, cert, fault, t) ==
  SaveCertificate(lv[c["BaseDir"]][c["Domain"]], ar[c["BaseDir"]][c["Domain"]],
                  cert, fault, t)
\* the end of renewOne: it returns what SaveCertificate (sv) returned
Stored(c, lv, ar, sv, loads, reqs, cert) ==
  RenewOut(sv.err, [lv EXCEPT ![c["BaseDir"]][c["Domain"]] = sv.live],
           [ar EXCEPT ![c["BaseDir"]][c["Domain"]] = sv.archive], loads, 1, reqs, 1, cert)

\* case "digicert" of renewOne, o being what ObtainCertificate returned
renewObtained(c, lv, ar, env, t, o) ==
  IF IsErr(o.res.err) THEN RenewOut(o.res.err, lv, ar, 1, 1, o.requests, 0, Nil)
  ELSE Stored(c, lv, ar, saveTo(c, lv, ar, o.res.val, env.fault, t), 1, o.requests,
              o.res.val)
\* case "digicert" of renewOne, g being what GetDigiCertConfig returned
renewDigiCert(c, lv, ar, env, key, t, g) ==
  IF IsErr(g.err)
    THEN RenewOut(Wrap("failed to load DigiCert credentials", g.err), lv, ar, 1, 0, 0, 0, Nil)
  ELSE renewObtained(c, lv, ar, env, t,
                     ObtainCertificate(<< c["Domain"] >>, key, g.val, env.scn.dc))

\* case "letsencrypt", "" of renewOne, were it not to look at the method
renewLetsEncrypt_AnyMethod(c, lv, ar, env, t, m, o) ==
  IF IsErr(m.err) THEN RenewOut(m.err, lv, ar, 0, 1, m.requests, 0, Nil)
  ELSE IF IsErr(o.err) THEN RenewOut(o.err, lv, ar, 0, 1, m.requests + 1, 0, Nil)
  ELSE Stored(c, lv, ar, saveTo(c, lv, ar, o.val, env.fault, t), 0, m.requests + 1, o.val)

\* case "letsencrypt", "" of renewOne, m and o being what NewManager and
\* ObtainHTTP01 returned
renewLetsEncrypt(c, lv, ar, env, t, m, o) ==
  IF c["Method"] # "http-01"
    THEN RenewOut(Err("unsupported method"), lv, ar, 0, 0, 0, 0, Nil)
  ELSE IF IsErr(m.err) THEN RenewOut(m.err, lv, ar, 0, 1, m.requests, 0, Nil)
  ELSE IF IsErr(o.err) THEN RenewOut(o.err, lv, ar, 0, 1, m.requests + 1, 0, Nil)
  ELSE Stored(c, lv, ar, saveTo(c, lv, ar, o.val, env.fault, t), 0, m.requests + 1, o.val)

\* renewOne(c, verbose) on the stores; key: what the key generator returns
renewOne(c, acc, lv, ar, env, key, t) ==
  IF c["Provider"] = "digicert"
    THEN renewDigiCert(c, lv, ar, env, key, t,
                       GetDigiCertConfig(acc[c["BaseDir"]], c["Email"]))
  ELSE IF c["Provider"] \in {"letsencrypt", ""}
    THEN renewLetsEncrypt(c, lv, ar, env, t,
           NewManager([Email |-> c["Email"], Server |-> c["Server"],
                       KeyType |-> c["KeyType"], KeySize |-> c["KeySize"],
                       BaseDir |-> c["BaseDir"]], env.scn.le),
           ObtainHTTP01(<< c["Domain"] >>, c["Webroot"], key, env.scn.le))
  ELSE RenewOut(Err("unsupported provider"), lv, ar, 0, 0, 0, 0, Nil)

\* what the callback of the walk leaves behind: ret is what it returns to WalkDir
WalkOut(r, es, lv, ar, tr) == [ret |-> r, errs |-> es, live |-> lv, archive |-> ar, trace |-> tr]
\* the trace of a visit that called renewOne, which returned r
Attempted(r) ==
  [visited |-> 1, loaded |-> TRUE, due |-> TRUE, attempts |-> 1,
   credLoads |-> r.credLoads, constructed |-> r.constructed, requests |-> r.requests,
   saves |-> r.saves, cert |-> r.cert, failed |-> IsErr(r.err),
   installed |-> r.installed]
\* errs with the entry of a failure appended
Appended(es, name, e) == IF IsErr(e) THEN Append(es, [name |-> name, err |-> e]) ELSE es

\* the callback RunAll hands to filepath.WalkDir, for the entry {d}.yaml, were
\* it to return the errors it meets to WalkDir; loadOK tells whether load(path) worked, cfg is what it returned, isDue
\* what due(cfg.Domain) returned and r what renewOne(cfg, verbose) did
walkEntry_StopsAtFailure(d, es, lv, ar, loadOK, cfg, isDue, r) ==
  IF ~loadOK
    THEN WalkOut(Err("load"), Appended(es, << d, ".yaml" >>, Err("load")), lv, ar,
                 [NoTrace EXCEPT !.visited = 1, !.failed = TRUE])
  ELSE IF ~isDue
    THEN WalkOut(NoErr, es, lv, ar, [NoTrace EXCEPT !.visited = 1, !.loaded = TRUE])
  ELSE WalkOut(r.err, Appended(es, << cfg["Domain"] >>, r.err), r.live, r.archive,
               Attempted(r))
\* the callback as written: it returns nil on every path
walkEntry(d, es, lv, ar, loadOK, cfg, isDue, r) ==
  IF ~loadOK
    THEN WalkOut(NoErr, Appended(es, << d, ".yaml" >>, Err("load")), lv, ar,
                 [NoTrace EXCEPT !.visited = 1, !.failed = TRUE])
  ELSE IF ~isDue
    THEN WalkOut(NoErr, es, lv, ar, [NoTrace EXCEPT !.visited = 1, !.loaded = TRUE])
  ELSE WalkOut(NoErr, Appended(es, << cfg["Domain"] >>, r.err), r.live, r.archive,
               Attempted(r))

\* the callback on the stores as they are when WalkDir calls it, were it to
\* renew without asking due
walkFn_IgnoresDue(d, file, acc, lv, ar, es, env, key, t) ==
  walkEntry(d, es, lv, ar, env.loadOK, load(file), TRUE,
            renewOne(load(file), acc, lv, ar, env, key, t))
\* the callback on the stores as they are when WalkDir calls it
walkFn(d, file, acc, lv, ar, es, env, key, t) ==
  walkEntry(d, es, lv, ar, env.loadOK, load(file), due(load(file)["Domain"], lv, t),
            renewOne(load(file), acc, lv, ar, env, key, t))

\* renewal.Save, were it to keep the stored value of every field the new
\* config leaves empty
Save_Merges(cfg, dirExists, cfgs, mkdirOK, writeOK) ==
  LET c == IF cfg["BaseDir"] = "" THEN [cfg EXCEPT !["BaseDir"] = DefaultBaseDir] ELSE cfg
      old == cfgs[cfg["Domain"]]
      m == IF old.exists
             THEN [f \in ConfigFields |->
                     IF c[f] = zeroOf(f) THEN yamlUnmarshal(old.data)[f] ELSE c[f]]
             ELSE c
  IN  IF cfg["Domain"] = ""
        THEN [err |-> Err("domain required"), dir |-> dirExists, configs |-> cfgs]
      ELSE IF ~dirExists /\ ~mkdirOK
        THEN [err |-> Err("mkdir"), dir |-> dirExists, configs |-> cfgs]
      ELSE IF ~writeOK
        THEN [err |-> Err("write"), dir |-> TRUE, configs |-> cfgs]
      ELSE [err |-> NoErr, dir |-> TRUE,
            configs |-> [cfgs EXCEPT ![cfg["Domain"]] = File(yamlMarshal(m))]]

\* renewal.Save(cfg) on the renewal directory; mkdirOK and writeOK tell
\* whether creating the directory and writing the file work
Save(cfg, dirExists, cfgs, mkdirOK, writeOK) ==
  LET c == IF cfg["BaseDir"] = "" THEN [cfg EXCEPT !["BaseDir"] = DefaultBaseDir] ELSE cfg
  IN  IF cfg["Domain"] = ""
        THEN [err |-> Err("domain required"), dir |-> dirExists, configs |-> cfgs]
      ELSE IF ~dirExists /\ ~mkdirOK
        THEN [err |-> Err("mkdir"), dir |-> dirExists, configs |-> cfgs]
      ELSE IF ~writeOK
        THEN [err |-> Err("write"), dir |-> TRUE, configs |-> cfgs]
      ELSE [err |-> NoErr, dir |-> TRUE,
            configs |-> [cfgs EXCEPT ![cfg["Domain"]] = File(yamlMarshal(c))]]

\* the error RunAll returns for its errs, were it to need two of them
RunAllResult_NeedsTwo(es) ==
  IF Len(es) > 1 THEN [kind |-> "error", msg |-> "some renewals failed", list |-> es]
  ELSE NoErr
\* the error RunAll returns for its errs
RunAllResult(es) ==
  IF Len(es) > 0 THEN [kind |-> "error", msg |-> "some renewals failed", list |-> es]
  ELSE NoErr

\* a provider constructed for cfg, before ObtainCertificate is called
DigiFresh(cfg) ==
  /\ config = cfg
  /\ dpc = "idle"
  /\ domains = << >>
  /\ privateKey = ""
  /\ csr = Nil
  /\ orderResp = Nil
  /\ i = 0
  /\ lastPoll = Result(Nil, NoErr)
  /\ steps = << >>
  /\ nreq = NoReq
  /\ signed = {}
  /\ stdout = << >>
  /\ respCode = NoReq
  /\ dcvMethods = NilBody
  /\ clock = 0
  /\ ret = Result(Nil, NoErr)

\* the processes that can call SaveCertificate at the same time
Procs == {1, 2}

(***************************************************************************)
(* Web server installers (internal/plugins/nginx/nginx.go and the apache   *)
(* package of src/unnamed/part_003) and the setup flow that calls them     *)
(* (internal/cli/install.go), for the domain a.com.                        *)
(***************************************************************************)
WebServers == {"apache", "nginx"}
SetupDomain == "a.com"

\* store.LoadCertPaths(baseDir, domain)
LoadCertPaths(baseDir, domain) ==
  [cert |-> << baseDir, "live", domain, "cert.pem" >>,
   key |-> << baseDir, "live", domain, "privkey.pem" >>,
   chain |-> << baseDir, "live", domain, "chain.pem" >>,
   fullchain |-> << baseDir, "live", domain, "fullchain.pem" >>]
\* sslServerConf (nginx) and sslVhostConf (apache)
sslConf(server, domain, paths) ==
  IF server = "nginx"
    THEN [server_name |-> domain, ssl_certificate |-> paths.fullchain,
          ssl_certificate_key |-> paths.key, ssl_trusted_certificate |-> paths.fullchain]
    ELSE [ServerName |-> domain, SSLCertificateFile |-> paths.cert,
          SSLCertificateKeyFile |-> paths.key, SSLCertificateChainFile |-> paths.fullchain]
\* os.WriteFile(out, []byte(conf), 0644) over what is at the path
ConfFile(old, conf) ==
  IF old.exists THEN [old EXCEPT !.data = conf]
  ELSE [exists |-> TRUE, data |-> conf, mode |-> "0644"]

\* installer{storeDir, assumeYes}.Install(domain) of the given web server on
\* the TLS config files; fault names the call that fails. The reloads that
\* follow the write have their errors dropped.
Install(conf, server, storeDir, assumeYes, domain, fault) ==
  IF ~assumeYes THEN [tls |-> conf, err |-> Err("confirmation required")]
  ELSE IF fault = "mkdir" THEN [tls |-> conf, err |-> Err("mkdir")]
  ELSE IF fault = "write" THEN [tls |-> conf, err |-> Err("write")]
  ELSE [tls |-> [conf EXCEPT ![server] =
                   ConfFile(@, sslConf(server, domain, LoadCertPaths(storeDir, domain)))],
        err |-> NoErr]

\* what a run of the setup flow leaves behind: the stores and files (st),
\* what RunE returns, and how far it got
SetupOut(st, e, requested, issued, saved, installed) ==
  [st |-> st, err |-> e, requested |-> requested, issued |-> issued, saved |-> saved,
   installed |-> installed]
\* the renewal config the flow persists, install.go:352-362
SetupConfig(in) ==
  [Config(SetupDomain, "http-01", "", DefaultBaseDir)
     EXCEPT !["Webroot"] = in.webroot, !["Targets"] = << in.server >>]
\* install.go:345-364, ins being what installer.Install returned: the
\* result of renewal.Save is dropped
setupPersist(st, in, ins, sv) ==
  IF IsErr(ins.err) THEN SetupOut(st, ins.err, TRUE, TRUE, TRUE, FALSE)
  ELSE SetupOut([st EXCEPT !.tls = ins.tls, !.renewalDir = sv.dir, !.configs = sv.configs],
                NoErr, TRUE, TRUE, TRUE, TRUE)
\* install.go:341-344, sv being what store.SaveCertificate returned
setupStore(st, in, sv) ==
  IF IsErr(sv.err)
    THEN SetupOut([st EXCEPT !.live = sv.live, !.archive = sv.archive], sv.err,
                  TRUE, TRUE, FALSE, FALSE)
  ELSE setupPersist([st EXCEPT !.live = sv.live, !.archive = sv.archive], in,
                    Install(st.tls, in.server, DefaultBaseDir, in.assumeYes, SetupDomain,
                            in.installFault),
                    Save(SetupConfig(in), st.renewalDir, st.configs, TRUE, in.cfgWriteOK))
\* install.go:331-335, o being what m.ObtainHTTP01 returned
setupObtain(st, in, o) ==
  IF IsErr(o.err) THEN SetupOut(st, o.err, TRUE, FALSE, FALSE, FALSE)
  ELSE setupStore(st, in, SaveCertificate(st.live, st.archive, o.val, in.saveFault, in.t))
\* installCmd.RunE from the confirmation prompt on (install.go:314-365), the
\* ACME manager and the installer of in.server being built; in.answer: what
\* the user answers at the prompt
setupHTTP01(st, in) ==
  IF ~in.assumeYes /\ ~in.answer THEN SetupOut(st, NoErr, FALSE, FALSE, FALSE, FALSE)
  ELSE IF in.webroot = ""
    THEN SetupOut(st, Err("could not detect webroot"), FALSE, FALSE, FALSE, FALSE)
  ELSE setupObtain(st, in, ObtainHTTP01(<< SetupDomain >>, in.webroot, in.key, in.net))

(***************************************************************************)
(* HTTP-01 challenge responder: webrootprovider (src/unnamed/part_003)     *)
(***************************************************************************)
\* the roots a Provider is built with; "" is the root nobody configured
Roots == {"", "/var/www/html"}
Tokens == {"tok1", "tok2"}
KeyAuths == {"tok1.thumb", "tok2.thumb"}
\* the challenge directory of every root, empty
NoChallenges == [r \in Roots |-> [t \in Tokens |-> NoFile]]
\* os.WriteFile(path, []byte(keyAuth), 0644) over what is at the path
ChallengeFile(old, keyAuth) ==
  IF old.exists THEN [old EXCEPT !.data = keyAuth]
  ELSE [exists |-> TRUE, data |-> keyAuth, mode |-> "0644"]

\* Provider{Root: root}.Present(domain, token, keyAuth) on the challenge
\* files; fault names the call that fails: "mkdir" for os.MkdirAll, "write"
\* for os.WriteFile
Present(ch, root, token, keyAuth, fault) ==
  IF root = "" THEN [challenge |-> ch, err |-> Err("webroot is empty")]
  ELSE IF fault = "mkdir" THEN [challenge |-> ch, err |-> Err("mkdir")]
  ELSE IF fault = "write" THEN [challenge |-> ch, err |-> Err("write")]
  ELSE [challenge |-> [ch EXCEPT ![root][token] = ChallengeFile(@, keyAuth)],
        err |-> NoErr]

\* CleanUp, were it to return the error of os.Remove
CleanUp_ReturnsError(ch, root, token, removeOK) ==
  [challenge |-> IF removeOK THEN [ch EXCEPT ![root][token] = NoFile] ELSE ch,
   err |-> IF removeOK /\ ch[root][token].exists THEN NoErr ELSE Err("remove")]

\* Provider{Root: root}.CleanUp(domain, token, keyAuth): the error of
\* os.Remove is dropped; removeOK tells whether os.Remove could delete a
\* file that is there
CleanUp(ch, root, token, removeOK) ==
  [challenge |-> IF removeOK THEN [ch EXCEPT ![root][token] = NoFile] ELSE ch,
   err |-> NoErr]

\* a machine on which nothing was set up yet: no renewal directory, no
\* account, no certificate
StoresEmpty ==
  /\ renewalDir = FALSE
  /\ configs = [d \in Domains |-> NoFile]
  /\ accounts = [b \in BaseDirs |-> [p \in Providers |-> [e \in Emails |-> NoAccount]]]
  /\ live = [b \in BaseDirs |-> [d \in Domains |-> NoDir]]
  /\ archive = [b \in BaseDirs |-> [d \in Domains |-> {}]]
  /\ now = 0
  /\ pc = "idle"
  /\ queue = << >>
  /\ errs = << >>
  /\ trace = [d \in Domains |-> NoTrace]
  /\ result = NoErr
  /\ runs = 0
  /\ op = [name |-> "none"]
  /\ savedCreds = [b \in BaseDirs |-> [p \in Providers |-> [e \in Emails |-> None]]]
  /\ savedCfgs = [d \in Domains |-> None]
  /\ nops = 0
  /\ challenge = NoChallenges
  /\ nch = 0
  /\ spc = [p \in Procs |-> [at |-> "idle"]]
  /\ overlapped = FALSE
  /\ tls = [w \in WebServers |-> NoFile]
  /\ nsetup = 0

\* the renewal engine before any setup
RenewInit ==
  /\ StoresEmpty
  /\ DigiFresh([ServerURL |-> "https://api.digicert.example", HMACID |-> "hmacid1",
                HMACKey |-> "secret1", APIKey |-> "apikey1", AccountID |-> "acct1",
                OrganizationID |-> "org1"])

\* NewDigiCertProvider(config) for the configs of the bounded sets
DigiInit ==
  \E cfg \in [ServerURL : {"https://api.digicert.example"}, HMACID : HMACIDs,
               HMACKey : HMACKeys, APIKey : {"apikey1"}, AccountID : {"acct1"},
               OrganizationID : OrgIDs] :
     /\ DigiFresh(cfg)
     /\ StoresEmpty

\* a call of renewal.Save; the setup flow precedes the renewal runs
SaveConfig ==
  /\ UNCHANGED << dvars, svars, xvars >>
  /\ pc = "idle" /\ runs = 0
  /\ \E cfg \in SaveInputs, mkdirOK \in BOOLEAN, writeOK \in BOOLEAN :
       LET r == Save(cfg, renewalDir, configs, mkdirOK, writeOK)
       IN  /\ renewalDir' = r.dir
           /\ configs' = r.configs
  /\ UNCHANGED << accounts, live, archive, now, pc, queue, errs, trace, result, runs >>

\* a call of AccountManager.SaveDigiCertAccount, during setup
SaveDigiCertAccount ==
  /\ UNCHANGED << dvars, svars, xvars >>
  /\ pc = "idle" /\ runs = 0
  /\ \E b \in BaseDirs, e \in Emails :
       accounts' = [accounts EXCEPT ![b] =
                      SaveAccount(@, e, DigiCertCreds(e, "https://api.digicert.example",
                                      "hmacid1", "secret1", "apikey1", "acct1", "org1"),
                                  "none").accounts]
  /\ UNCHANGED << renewalDir, configs, live, archive, now, pc, queue, errs, trace,
                  result, runs >>

\* a day passes between two invocations
Tick ==
  /\ UNCHANGED << dvars, svars, xvars >>
  /\ pc = "idle"
  /\ runs > 0 /\ now < MaxNow
  /\ now' = now + 1
  /\ UNCHANGED << renewalDir, configs, accounts, live, archive, pc, queue, errs, trace,
                  result, runs >>

\* RunAll up to the walk: ensureDir, then WalkDir reads the directory, whose
\* entries it visits in lexical order
RunAllStart ==
  /\ UNCHANGED << dvars, svars, xvars >>
  /\ pc = "idle"
  /\ runs < MaxRuns
  /\ runs' = runs + 1
  /\ errs' = << >>
  /\ trace' = [d \in Domains |-> NoTrace]
  /\ \E mkdirOK \in BOOLEAN :
       IF ~renewalDir /\ ~mkdirOK
         THEN /\ result' = Err("mkdir")
              /\ pc' = "done"
              /\ queue' = << >>
              /\ UNCHANGED renewalDir
         ELSE /\ renewalDir' = TRUE
              /\ queue' = SelectSeq(DomainOrder, LAMBDA d : configs[d].exists)
              /\ pc' = "walk"
              /\ UNCHANGED result
  /\ UNCHANGED << configs, accounts, live, archive, now >>

\* what a call of the callback for entry d leaves in the state, w being what
\* it did; an error it returns ends the walk
Visited(d, w) ==
  /\ errs' = w.errs
  /\ live' = w.live
  /\ archive' = w.archive
  /\ trace' = [trace EXCEPT ![d] =
                  [w.trace EXCEPT !.visited = trace[d].visited + 1,
                                  !.attempts = trace[d].attempts + w.trace.attempts]]
  /\ queue' = IF IsErr(w.ret) THEN << >> ELSE Tail(queue)

\* WalkDir calls the callback for the next entry
RunAllVisit ==
  /\ UNCHANGED << dvars, svars, xvars >>
  /\ pc = "walk"
  /\ queue # << >>
  /\ \E env \in Envs(now, runs) :
       Visited(Head(queue),
               walkFn(Head(queue), configs[Head(queue)], accounts, live, archive, errs,
                      env, << runs, Head(queue) >>, now))
  /\ UNCHANGED << renewalDir, configs, accounts, now, pc, result, runs >>

\* the walk is over: RunAll returns
RunAllReturn ==
  /\ UNCHANGED << dvars, svars, xvars >>
  /\ pc = "walk"
  /\ queue = << >>
  /\ result' = RunAllResult(errs)
  /\ pc' = "done"
  /\ UNCHANGED << renewalDir, configs, accounts, live, archive, now, queue, errs, trace, runs >>

\* the process that ran RunAll exits, and what it held in memory is gone
RunAllExit ==
  /\ UNCHANGED << dvars, svars, xvars >>
  /\ pc = "done"
  /\ pc' = "idle"
  /\ errs' = << >>
  /\ trace' = [d \in Domains |-> NoTrace]
  /\ result' = NoErr
  /\ UNCHANGED << renewalDir, configs, accounts, live, archive, now, queue, runs >>

Next ==
  \/ SaveConfig
  \/ SaveDigiCertAccount
  \/ Tick
  \/ RunAllStart
  \/ RunAllVisit
  \/ RunAllReturn
  \/ RunAllExit

Spec == RenewInit /\ [][Next]_vars

SpecDigi == DigiInit /\ [][DigiNext]_vars

(***************************************************************************)
(* The stores called directly: SaveAccount, SaveCertificate and            *)
(* renewal.Save in any order, with I/O faults, on files whose permissions  *)
(* someone else may have set. op, savedCreds, savedCfgs and nops record    *)
(* these calls; the renewal runs of Spec leave them alone.                 *)
(***************************************************************************)
\* bound: calls made on the stores
MaxOps == 2

\* the credentials handed to SaveAccount by its three callers, one of them
\* with most fields empty
CredInputs(e) ==
  { DigiCertCreds(e, "https://api.digicert.example", "hmacid1", "secret1", "apikey1",
                  "acct1", "org1"),
    DigiCertCreds(e, "https://api.digicert.example", "", "secret2", "", "", ""),
    DigiCertACMECreds(e, "https://acme.digicert.example", "kid1", "eabkey1", "acct1", ""),
    LetsEncryptCreds(e, "https://ca.example/directory") }
AccountFaults == {"none", "mkdir", "write"}

\* the resources handed to SaveCertificate: two issuances, and one that
\* carries no private key
LeafA == << CertPEM(1, 90) >>
LeafB == << CertPEM(2, 91) >>
CertInputs ==
  { [Domain |-> "a.com", Certificate |-> LeafA, IssuerCertificate |-> IssuerCA,
     PrivateKey |-> MarshalPrivateKeyToPEM("k1")],
    [Domain |-> "a.com", Certificate |-> LeafB,
     IssuerCertificate |-> << CertPEM(101, 365) >>,
     PrivateKey |-> MarshalPrivateKeyToPEM("k2")],
    [Domain |-> "a.com", Certificate |-> LeafB,
     IssuerCertificate |-> << CertPEM(101, 365) >>, PrivateKey |-> << >>] }
\* the faults SaveCertificate can meet: one failing call of the live part or
\* the archive directory, or archive files that cannot be written
CertFaults ==
  { NoFault, FaultAt(1), FaultAt(3), FaultAt(5), FaultAt(6),
    [at |-> 0, archFail |-> {"fullchain"}],
    [at |-> 0, archFail |-> {"cert", "chain", "fullchain", "privkey"}] }

\* the configs handed to renewal.Save, with different targets
ConfigInputs ==
  { Config(d, "http-01", "", b) : d \in {"", "a.com"}, b \in {"", OtherBaseDir} }
  \cup { [Config("a.com", "http-01", "", "") EXCEPT !["Targets"] = << "apache" >>],
          [Config("a.com", "digicert", "", "") EXCEPT !["Targets"] = << >>] }

\* AccountManager(b).SaveAccount(e, creds)
StoreSaveAccount ==
  /\ UNCHANGED << dvars, xvars >>
  /\ nops < MaxOps
  /\ nops' = nops + 1
  /\ \E e \in Emails, fault \in AccountFaults : \E creds \in CredInputs(e) :
       LET r == SaveAccount(accounts[DefaultBaseDir], e, creds, fault)
       IN  /\ accounts' = [accounts EXCEPT ![DefaultBaseDir] = r.accounts]
           /\ op' = [name |-> "SaveAccount", email |-> e, creds |-> creds, err |-> r.err,
                     before |-> accounts[DefaultBaseDir][creds["Provider"]][e]]
           /\ savedCreds' =
                IF IsErr(r.err) THEN savedCreds
                ELSE [savedCreds EXCEPT ![DefaultBaseDir][creds["Provider"]][e] = Some(creds)]
  /\ UNCHANGED << renewalDir, configs, live, archive, now, pc, queue, errs, trace,
                  result, runs, savedCfgs >>

\* store.SaveCertificate(DefaultBaseDir, cert.Domain, cert)
StoreSaveCertificate ==
  /\ UNCHANGED << dvars, xvars >>
  /\ nops < MaxOps
  /\ nops' = nops + 1
  /\ \E cert \in CertInputs, fault \in CertFaults :
       LET r == SaveCertificate(live[DefaultBaseDir][cert.Domain],
                                archive[DefaultBaseDir][cert.Domain], cert, fault, now)
       IN  /\ live' = [live EXCEPT ![DefaultBaseDir][cert.Domain] = r.live]
           /\ archive' = [archive EXCEPT ![DefaultBaseDir][cert.Domain] = r.archive]
           /\ op' = [name |-> "SaveCertificate", cert |-> cert, fault |-> fault,
                     err |-> r.err, before |-> live[DefaultBaseDir][cert.Domain],
                     ts |-> now]
  /\ UNCHANGED << renewalDir, configs, accounts, now, pc, queue, errs, trace,
                  result, runs, savedCreds, savedCfgs >>

\* renewal.Save(cfg)
StoreSaveConfig ==
  /\ UNCHANGED << dvars, xvars >>
  /\ nops < MaxOps
  /\ nops' = nops + 1
  /\ \E cfg \in ConfigInputs, mkdirOK \in BOOLEAN, writeOK \in BOOLEAN :
       LET r == Save(cfg, renewalDir, configs, mkdirOK, writeOK)
       IN  /\ renewalDir' = r.dir
           /\ configs' = r.configs
           /\ op' = [name |-> "Save", cfg |-> cfg, err |-> r.err, before |-> configs,
                     dir |-> renewalDir]
           /\ savedCfgs' =
                IF IsErr(r.err) THEN savedCfgs
                ELSE [savedCfgs EXCEPT ![cfg["Domain"]] = Some(cfg)]
  /\ UNCHANGED << accounts, live, archive, now, pc, queue, errs, trace, result, runs,
                  savedCreds >>

\* what the ACME server can answer to the registration of a constructor: no
\* error, the two texts of an account that exists, or another problem
RegAnswers == {"", "already registered",
               "urn:ietf:params:acme:error:accountAlreadyExists",
               "urn:ietf:params:acme:error:badNonce"}
\* the options the constructors are called with
ManagerOpts ==
  [Email |-> "admin@a.com", Server |-> "https://ca.example/directory", KeyType |-> "",
   KeySize |-> 0, BaseDir |-> DefaultBaseDir]
EABOpts(kid) ==
  [ServerURL |-> "https://acme.digicert.example", EABKID |-> kid, EABHMACKey |-> "eabkey1",
   Email |-> "admin@a.com", KeyType |-> "", KeySize |-> 0, BaseDir |-> DefaultBaseDir]

\* acme.NewManager(opts) or acme.NewDigiCertACMEProvider(opts)
StoreNewProvider ==
  /\ UNCHANGED << dvars, xvars >>
  /\ nops < MaxOps
  /\ nops' = nops + 1
  /\ \E reg \in RegAnswers, dirOK \in BOOLEAN :
       LET net == [dir |-> dirOK, reg |-> reg]
       IN  \/ op' = [name |-> "NewManager", net |-> net,
                     err |-> NewManager(ManagerOpts, net).err]
           \/ \E kid \in {"", "kid1"} :
                op' = [name |-> "NewDigiCertACMEProvider", net |-> net, kid |-> kid,
                       err |-> NewDigiCertACMEProvider(EABOpts(kid), net).err]
  /\ UNCHANGED << rvars, savedCreds, savedCfgs >>

\* the configs renewOne is handed: every provider it has a branch for and
\* one it has none for, with a method it supports and one it does not
RenewInputs ==
  { Config("a.com", m, p, DefaultBaseDir) :
      m \in {"http-01", "digicert"}, p \in {"digicert", "letsencrypt", "", "zerossl"} }
\* what renewOne can meet: an authority that issues, or one that rejects
RenewEnvs(t) ==
  { [loadOK |-> TRUE, scn |-> Scenario(k, << CertPEM(7, t + 90) >>), fault |-> NoFault] :
      k \in {"ok", "reject"} }

\* renewOne(cfg, verbose)
StoreRenewOne ==
  /\ UNCHANGED << dvars, xvars >>
  /\ nops < MaxOps
  /\ nops' = nops + 1
  /\ \E cfg \in RenewInputs, env \in RenewEnvs(now) :
       LET r == renewOne(cfg, accounts, live, archive, env, << "direct", nops >>, now)
       IN  /\ live' = r.live
           /\ archive' = r.archive
           /\ op' = [name |-> "renewOne", cfg |-> cfg, err |-> r.err,
                     credLoads |-> r.credLoads, constructed |-> r.constructed,
                     requests |-> r.requests, saves |-> r.saves,
                     before |-> live, archived |-> archive,
                     creds |-> GetDigiCertConfig(accounts[cfg["BaseDir"]], cfg["Email"])]
  /\ UNCHANGED << renewalDir, configs, accounts, now, pc, queue, errs, trace, result,
                  runs, savedCreds, savedCfgs >>

\* someone other than the program loosens the permissions of a live file or
\* of a credentials file that exists
StoreChmod ==
  /\ UNCHANGED << dvars, xvars >>
  /\ nops < MaxOps
  /\ \/ \E f \in {"cert", "privkey"} :
          /\ live[DefaultBaseDir]["a.com"][f].exists
          /\ live' = [live EXCEPT ![DefaultBaseDir]["a.com"][f].mode = "0644"]
          /\ UNCHANGED accounts
     \/ \E p \in Providers, e \in Emails :
          /\ accounts[DefaultBaseDir][p][e].exists
          /\ accounts' = [accounts EXCEPT ![DefaultBaseDir][p][e].mode = "0644"]
          /\ UNCHANGED live
  /\ op' = [name |-> "chmod"]
  /\ UNCHANGED << renewalDir, configs, archive, now, pc, queue, errs, trace, result,
                  runs, savedCreds, savedCfgs, nops >>

\* a day passes
StoreTick ==
  /\ UNCHANGED << dvars, xvars >>
  /\ now < MaxNow
  /\ now' = now + 1
  /\ UNCHANGED << renewalDir, configs, accounts, live, archive, pc, queue, errs, trace,
                  result, runs, svars >>

StoreNext ==
  \/ StoreSaveAccount
  \/ StoreSaveCertificate
  \/ StoreSaveConfig
  \/ StoreChmod
  \/ StoreNewProvider
  \/ StoreRenewOne
  \/ StoreTick

SpecStore == RenewInit /\ [][StoreNext]_vars

(***************************************************************************)
(* Properties of the renewal engine, under Spec.                           *)
(***************************************************************************)
\* RunAll has returned
Returns == pc = "done"
\* RunAll has returned after the walk: ensureDir worked
Walked == pc = "done" /\ renewalDir
\* the configs persisted in the renewal directory
Persisted == { d \in Domains : configs[d].exists }
\* the domains whose config failed in the run
FailedDomains == { d \in Domains : trace[d].failed }
\* the domain an entry of the aggregated error names: the domain itself for
\* a renewal that failed, the file {domain}.yaml for a config that did not load
NamedBy(e) == e.name[1]

\* C1: when RunAll returns after its walk, every persisted config was
\* evaluated exactly once, whatever happened to the configs before it; the
\* ones that loaded and were due were attempted exactly once, the others not
\* at all, and nothing was done for a domain without a config.
C1_FailureTolerant ==
  Walked =>
    \A d \in Domains :
      IF d \in Persisted
        THEN /\ trace[d].visited = 1
             /\ trace[d].attempts = IF trace[d].loaded /\ trace[d].due THEN 1 ELSE 0
        ELSE trace[d] = NoTrace

\* C1 witness: the first config of the walk failed and the second was
\* attempted all the same
C1_Witness ==
  /\ Walked
  /\ trace[DomainOrder[1]].failed
  /\ trace[DomainOrder[2]].attempts = 1

\* the live certificate of d, in the base directory of its config, is the
\* one this run was issued
LiveReplaced(d) ==
  live[load(configs[d])["BaseDir"]][d].cert = File(trace[d].cert.Certificate)

\* what C2 says of a run that returned after its walk
ErrorIffFailure ==
  /\ IsErr(result) <=> FailedDomains # {}
  /\ IsErr(result) =>
       { NamedBy(result.list[k]) : k \in 1..Len(result.list) } = FailedDomains
  /\ \A d \in Domains :
       (trace[d].attempts = 1 /\ ~trace[d].failed) => LiveReplaced(d)

\* C2 as stated: whenever RunAll returns, it returns an error if and only if
\* a config failed, the error names exactly the failing domains, and every
\* due domain that succeeded has its live certificate replaced.
C2_AsStated == Returns => ErrorIffFailure

\* C2, amended: the same whenever RunAll could create or find the renewal
\* directory; when it could not, RunAll returns that error with no config
\* evaluated and none failed.
C2_AggregatedError ==
  Returns =>
    IF renewalDir THEN ErrorIffFailure
    ELSE /\ IsErr(result)
         /\ \A d \in Domains : trace[d] = NoTrace

\* C2 witness: a run returned an error that names one domain, while the
\* other domain was renewed and has its new certificate live
C2_Witness ==
  /\ Walked
  /\ IsErr(result)
  /\ \E d1, d2 \in Domains :
       /\ FailedDomains = {d1}
       /\ trace[d2].attempts = 1 /\ ~trace[d2].failed /\ LiveReplaced(d2)

\* the days left to the certificate of the first PEM block of a file, -1
\* where the file has no PEM block or the block holds no certificate
DaysLeft(data) ==
  IF \A k \in 1..Len(data) : ~data[k].pem THEN -1
  ELSE LET k == CHOOSE n \in 1..Len(data) :
                  data[n].pem /\ \A m \in 1..(n - 1) : ~data[m].pem
       IN  IF data[k].der THEN data[k].notAfter - now ELSE -1
\* C3's condition on the live certificate file of d, as the state has it
ClaimedDue(d) ==
  \/ ~live[DefaultBaseDir][d].cert.exists
  \/ DaysLeft(live[DefaultBaseDir][d].cert.data) < RenewBefore

\* C3: whenever the walk evaluates a config it could load, due(domain)
\* answers true exactly when the domain's live certificate file (in the
\* default base directory) is missing, or holds no certificate that parses,
\* or expires in strictly less than 30 days.
C3_Due ==
  [][ (pc = "walk" /\ queue # << >> /\ trace'[Head(queue)].loaded) =>
        (trace'[Head(queue)].due <=> ClaimedDue(Head(queue))) ]_vars

\* C3 witness: in one run, a certificate with exactly 30 days left was found
\* not due and one with 29 days left was found due
C3_Witness ==
  /\ Walked
  /\ \E d1, d2 \in Domains :
       /\ trace[d1].loaded /\ ~trace[d1].due
       /\ live[DefaultBaseDir][d1].cert.exists
       /\ DaysLeft(live[DefaultBaseDir][d1].cert.data) = RenewBefore
       /\ trace[d2].due /\ trace[d2].saves = 0
       /\ live[DefaultBaseDir][d2].cert.exists
       /\ DaysLeft(live[DefaultBaseDir][d2].cert.data) = RenewBefore - 1

\* the store directories of domain d do not change in this step
DirsUnchanged(d) ==
  \A b \in BaseDirs : live'[b][d] = live[b][d] /\ archive'[b][d] = archive[b][d]
\* this step is the visit of the config of d
Visiting(d) == pc = "walk" /\ queue # << >> /\ Head(queue) = d

\* C4: the visit of a config that loaded and is not due constructs no
\* provider, sends no request, loads no credential, saves nothing to the
\* store and adds nothing to errs; no other step of the run touches the live
\* and archive directories of its domain; and the error RunAll returns has
\* no entry for it.
C4_NotDueUntouched ==
  /\ [][ \A d \in Domains :
           IF Visiting(d)
             THEN (trace'[d].loaded /\ ~ClaimedDue(d)) =>
                    /\ DirsUnchanged(d)
                    /\ trace'[d].constructed = 0 /\ trace'[d].requests = 0
                    /\ trace'[d].credLoads = 0 /\ trace'[d].saves = 0
                    /\ trace'[d].attempts = 0
                    /\ errs' = errs
             ELSE DirsUnchanged(d) ]_vars
  /\ [](Walked =>
          \A d \in Domains :
            (trace[d].loaded /\ ~trace[d].due /\ IsErr(result)) =>
              \A k \in 1..Len(result.list) : NamedBy(result.list[k]) # d)

\* C4 witness: a run skipped a config that was not due and returned an error
\* for the other domain
C4_Witness ==
  /\ Walked
  /\ IsErr(result)
  /\ \E d \in Domains :
       /\ trace[d].loaded /\ ~trace[d].due /\ ~ClaimedDue(d)
       /\ trace[d].visited = 1
       /\ live[DefaultBaseDir][d].cert.exists

(***************************************************************************)
(* The challenge responder called directly, as lego does during an HTTP-01 *)
(* validation: Present and CleanUp in any order, with I/O faults.          *)
(***************************************************************************)
\* bound: calls made on the challenge responder
MaxChallengeOps == 3

\* Provider.Present(domain, token, keyAuth)
WebrootPresent ==
  /\ UNCHANGED << dvars, rvars, savedCreds, savedCfgs, nops, cvars, ivars >>
  /\ nch < MaxChallengeOps
  /\ nch' = nch + 1
  /\ \E root \in Roots, token \in Tokens, keyAuth \in KeyAuths,
        fault \in {"none", "mkdir", "write"} :
       LET r == Present(challenge, root, token, keyAuth, fault)
       IN  /\ challenge' = r.challenge
           /\ op' = [name |-> "Present", root |-> root, token |-> token,
                     keyAuth |-> keyAuth, err |-> r.err, before |-> challenge]

\* Provider.CleanUp(domain, token, keyAuth)
WebrootCleanUp ==
  /\ UNCHANGED << dvars, rvars, savedCreds, savedCfgs, nops, cvars, ivars >>
  /\ nch < MaxChallengeOps
  /\ nch' = nch + 1
  /\ \E root \in Roots, token \in Tokens, removeOK \in BOOLEAN :
       LET r == CleanUp(challenge, root, token, removeOK)
       IN  /\ challenge' = r.challenge
           /\ op' = [name |-> "CleanUp", root |-> root, token |-> token,
                     removed |-> removeOK, err |-> r.err, before |-> challenge]

WebrootNext ==
  \/ WebrootPresent
  \/ WebrootCleanUp

SpecWebroot == RenewInit /\ [][WebrootNext]_vars

(***************************************************************************)
(* Properties of the challenge responder, under SpecWebroot.               *)
(***************************************************************************)
\* the challenge file of the token the recorded call was given
TokenFile == challenge[op.root][op.token]
\* the recorded call left the files of every other token as they were
OthersUnchanged ==
  \A r \in Roots, t \in Tokens :
    << r, t >> # << op.root, op.token >> => challenge[r][t] = op.before[r][t]
\* what Present and CleanUp do apart from removing the token's file
ResponderContract ==
  /\ (op.name = "Present" /\ op.root = "") =>
       (IsErr(op.err) /\ challenge = op.before)
  /\ (op.name = "Present" /\ ~IsErr(op.err)) =>
       (TokenFile.exists /\ TokenFile.data = op.keyAuth /\ OthersUnchanged)
  /\ op.name = "CleanUp" => (~IsErr(op.err) /\ OthersUnchanged)

\* C21 as stated: Present with an empty webroot fails and writes nothing,
\* Present with a webroot leaves the token's file holding keyAuth, CleanUp
\* always succeeds and leaves other tokens' files alone, and after CleanUp
\* the token's file is absent.
C21_AsStated ==
  /\ ResponderContract
  /\ op.name = "CleanUp" => ~TokenFile.exists

\* C21: as above, but after CleanUp the token's file is absent only when
\* os.Remove could delete it; when it could not, CleanUp still succeeds and
\* the file is as it was.
C21_ChallengeResponder ==
  /\ ResponderContract
  /\ op.name = "CleanUp" =>
       IF op.removed THEN ~TokenFile.exists ELSE TokenFile = op.before[op.root][op.token]
\* a token's file was presented and cleaned up while another token's file
\* stayed in place
C21_Witness ==
  /\ op.name = "CleanUp"
  /\ op.removed
  /\ op.before[op.root][op.token].exists
  /\ \E t \in Tokens \ {op.token} : challenge[op.root][t].exists

(***************************************************************************)
(* Two invocations of the program saving a certificate for the same domain *)
(* and base directory. SaveCertificate takes no lock, so the file calls of *)
(* the two processes are scheduled in any order.                           *)
(***************************************************************************)
\* the resource each process saves: the second one with or without a key
RaceInputs(p) ==
  IF p = 1 THEN { c \in CertInputs : c.Certificate = LeafA }
  ELSE { c \in CertInputs : c.Certificate = LeafB }
\* the order of the live writes, were chain.pem left out
NextWrite_SkipsChain(at) ==
  CASE at = "cert" -> "fullchain" [] at = "chain" -> "fullchain"
    [] at = "fullchain" -> "privkey" [] at = "privkey" -> "archive"
\* the live files in the order SaveCertificate writes them, store.go:28-33
NextWrite(at) ==
  CASE at = "cert" -> "chain" [] at = "chain" -> "fullchain"
    [] at = "fullchain" -> "privkey" [] at = "privkey" -> "archive"
\* what SaveCertificate writes to the live file f
LiveBytes(cert, f) ==
  CASE f = "cert" -> cert.Certificate
    [] f = "chain" -> cert.IssuerCertificate
    [] f = "fullchain" -> cert.Certificate \o cert.IssuerCertificate
    [] f = "privkey" -> cert.PrivateKey
\* the process is between the first and the last file call of its Save
Busy(p) == spc[p].at \notin {"idle", "done"}

\* a process enters SaveCertificate: ensureDir(dir, 0700), store.go:27
RaceStart ==
  /\ UNCHANGED << dvars, svars, wvars, ivars >>
  /\ \E p \in Procs : \E cert \in RaceInputs(p) :
       /\ spc[p].at = "idle"
       /\ spc' = [spc EXCEPT ![p] = [at |-> "cert", cert |-> cert]]
       /\ overlapped' = (overlapped \/ \E q \in Procs \ {p} : Busy(q))
       /\ live' = [live EXCEPT ![DefaultBaseDir][cert.Domain].dir = TRUE,
                               ![DefaultBaseDir][cert.Domain].mode = "0700"]
  /\ UNCHANGED << renewalDir, configs, accounts, archive, now, pc, queue, errs, trace,
                  result, runs >>

\* a process writes its next live file, store.go:28-33; privkey.pem only
\* when the resource carries a key
RaceWrite ==
  /\ UNCHANGED << dvars, svars, wvars, ivars >>
  /\ \E p \in Procs :
       /\ spc[p].at \in {"cert", "chain", "fullchain", "privkey"}
       /\ spc' = [spc EXCEPT ![p].at = NextWrite(@)]
       /\ live' = IF spc[p].at = "privkey" /\ Len(spc[p].cert.PrivateKey) = 0 THEN live
                  ELSE [live EXCEPT ![DefaultBaseDir][spc[p].cert.Domain][spc[p].at] =
                          Written(@, LiveBytes(spc[p].cert, spc[p].at))]
  /\ UNCHANGED << renewalDir, configs, accounts, archive, now, pc, queue, errs, trace,
                  result, runs, overlapped >>

\* a process makes its archive copy and returns, store.go:34-40
RaceArchive ==
  /\ UNCHANGED << dvars, svars, wvars, ivars >>
  /\ \E p \in Procs :
       /\ spc[p].at = "archive"
       /\ spc' = [spc EXCEPT ![p].at = "done"]
       /\ archive' = [archive EXCEPT ![DefaultBaseDir][spc[p].cert.Domain] =
                        SaveCertificate(live[DefaultBaseDir][spc[p].cert.Domain], @,
                                        spc[p].cert, NoFault, now).archive]
  /\ UNCHANGED << renewalDir, configs, accounts, live, now, pc, queue, errs, trace,
                  result, runs, overlapped >>

\* a day passes between file calls
RaceTick ==
  /\ UNCHANGED << dvars, svars, xvars >>
  /\ now < MaxNow
  /\ now' = now + 1
  /\ UNCHANGED << renewalDir, configs, accounts, live, archive, pc, queue, errs, trace,
                  result, runs >>

RaceNext ==
  \/ RaceStart
  \/ RaceWrite
  \/ RaceArchive
  \/ RaceTick

SpecRace == RenewInit /\ [][RaceNext]_vars

(***************************************************************************)
(* The setup flow (trusttls install) for a Let's Encrypt certificate, run  *)
(* with or without --yes.                                                  *)
(***************************************************************************)
\* bound: runs of the setup flow
MaxSetups == 2

\* what the ACME server does during a run: it issues, or refuses
SetupNets(t, r) ==
  { Scenario(k, << CertPEM(r, t + 90) >>).le : k \in {"ok", "timeout"} }
\* the stores and files a run works on
SetupState ==
  [live |-> live[DefaultBaseDir][SetupDomain], archive |-> archive[DefaultBaseDir][SetupDomain],
   tls |-> tls, renewalDir |-> renewalDir, configs |-> configs]

\* the run r of the flow on the stores
Setup(in, r) ==
  /\ live' = [live EXCEPT ![DefaultBaseDir][SetupDomain] = r.st.live]
  /\ archive' = [archive EXCEPT ![DefaultBaseDir][SetupDomain] = r.st.archive]
  /\ tls' = r.st.tls
  /\ renewalDir' = r.st.renewalDir
  /\ configs' = r.st.configs
  /\ op' = [name |-> "install", assumeYes |-> in.assumeYes, answer |-> in.answer,
            server |-> in.server, config |-> SetupConfig(in), err |-> r.err,
            requested |-> r.requested, issued |-> r.issued, saved |-> r.saved,
            installed |-> r.installed, cfgWriteOK |-> in.cfgWriteOK,
            before |-> SetupState]
  /\ UNCHANGED << savedCreds, savedCfgs, nops >>

\* installCmd.RunE on its Let's Encrypt path: the account is recorded
\* (install.go:204), then the flow runs from the prompt on
SetupInstall ==
  /\ UNCHANGED << dvars, wvars, cvars >>
  /\ nsetup < MaxSetups
  /\ nsetup' = nsetup + 1
  /\ accounts' = [accounts EXCEPT ![DefaultBaseDir] =
                    SaveAccount(@, "admin@a.com",
                                LetsEncryptCreds("admin@a.com", "https://ca.example/directory"),
                                "none").accounts]
  /\ \E assumeYes \in BOOLEAN, answer \in BOOLEAN, server \in WebServers,
        webroot \in {"", "/var/www/html"}, net \in SetupNets(now, nsetup + 1),
        saveFault \in {NoFault, FaultAt(3)}, installFault \in {"none", "mkdir", "write"},
        cfgWriteOK \in BOOLEAN :
       LET in == [assumeYes |-> assumeYes, answer |-> answer, server |-> server,
                  webroot |-> webroot, net |-> net, saveFault |-> saveFault,
                  installFault |-> installFault, cfgWriteOK |-> cfgWriteOK,
                  key |-> << "setup", nsetup >>, t |-> now]
       IN  Setup(in, setupHTTP01(SetupState, in))
  /\ UNCHANGED << now, pc, queue, errs, trace, result, runs >>

\* a day passes between two runs of the flow
SetupTick ==
  /\ UNCHANGED << dvars, svars, xvars >>
  /\ now < MaxNow
  /\ now' = now + 1
  /\ UNCHANGED << renewalDir, configs, accounts, live, archive, pc, queue, errs, trace,
                  result, runs >>

SetupNext ==
  \/ SetupInstall
  \/ SetupTick

SpecSetup == RenewInit /\ [][SetupNext]_vars

(***************************************************************************)
(* Properties of the stores, under SpecStore.                              *)
(***************************************************************************)
\* the call the state records has returned without error
OpDone(name) == op.name = name /\ ~IsErr(op.err)
\* the accounts of the base directory the calls work on
Accts == accounts[DefaultBaseDir]

\* C12: once SaveAccount(email, creds) has succeeded, LoadAccount(email,
\* creds.Provider) returns creds field for field, empty fields included,
\* whatever was saved before under the same or another key; LoadAccount of a
\* key nothing was saved under fails.
C12_CredentialRoundTrip ==
  /\ OpDone("SaveAccount") =>
       LoadAccount(Accts, op.email, op.creds["Provider"]) = Result(op.creds, NoErr)
  /\ \A p \in Providers, e \in Emails :
       ~savedCreds[DefaultBaseDir][p][e].some => IsErr(LoadAccount(Accts, e, p).err)
\* credentials without an HMAC id were saved over stored ones that had one,
\* while another provider's key was never saved
C12_Witness ==
  /\ OpDone("SaveAccount")
  /\ op.before.exists
  /\ "HMACID" \in DOMAIN op.before.data
  /\ op.creds["HMACID"] = ""
  /\ ~savedCreds[DefaultBaseDir]["letsencrypt"][op.email].some

\* the email's stored record is tagged "letsencrypt" and it has no other one
OnlyLetsEncrypt(e) ==
  /\ Accts["letsencrypt"][e].exists
  /\ jsonUnmarshal(Accts["letsencrypt"][e].data)["Provider"] = "letsencrypt"
  /\ ~Accts["digicert"][e].exists
WrongProvider == Err("account is not a DigiCert account")

\* C13: resolving a DigiCert config, REST or EAB, for an email whose stored
\* record is tagged "letsencrypt" fails with the wrong-provider error.
C13_WrongProvider ==
  \A e \in Emails :
    OnlyLetsEncrypt(e) =>
      /\ GetDigiCertConfig(Accts, e).err = WrongProvider
      /\ GetDigiCertACMEConfig(Accts, e, DefaultBaseDir).err = WrongProvider

\* the live directory of the domain the calls work on, and its archive
LiveDir == live[DefaultBaseDir]["a.com"]
Archive == archive[DefaultBaseDir]["a.com"]
\* SaveCertificate has written the live directory and every live file of
\* the resource it was given
LiveWritten ==
  /\ op.name = "SaveCertificate"
  /\ op.fault.at \notin 1..5 \/ (op.fault.at = 5 /\ Len(op.cert.PrivateKey) = 0)

\* C14: an archive failure is not fatal: whenever SaveCertificate has written
\* the live directory and all live files, it returns success, whether or not
\* creating the archive directory or writing an archive file fails.
C14_ArchiveNonFatal == LiveWritten => ~IsErr(op.err)

\* the snapshots SaveCertificate left in the archive under its timestamp
Snapshots == { e \in Archive : e.ts = op.ts }
\* SaveCertificate ran with every write succeeding
AllWritten == op.name = "SaveCertificate" /\ op.fault = NoFault

\* C15: after a SaveCertificate whose writes all succeed, the live
\* fullchain.pem is the leaf followed by the issuer, and the archive copy the
\* call made has the same fullchain.pem, cert.pem and chain.pem.
C15_FullchainAndArchive ==
  AllWritten =>
    /\ ~IsErr(op.err)
    /\ LiveDir.fullchain.exists
    /\ LiveDir.fullchain.data = op.cert.Certificate \o op.cert.IssuerCertificate
    /\ Snapshots # {}
    /\ \A e \in Snapshots : \A f \in {"fullchain", "cert", "chain"} :
         /\ e.files[f].exists
         /\ e.files[f].data = LiveDir[f].data
\* a second issuance was saved over the files of an earlier one
C15_Witness ==
  /\ AllWritten
  /\ op.before.fullchain.exists
  /\ op.before.fullchain.data # LiveDir.fullchain.data

\* the contents of the files of a live directory
LiveData(d) ==
  [f \in {"cert", "chain", "fullchain", "privkey"} |->
     IF d[f].exists THEN Some(d[f].data) ELSE None]

\* C16: persistence is atomic: when SaveCertificate returns an error, the
\* files of live/{domain}/ are as they were before the call, so they never
\* mix two resources.
C16_AtomicSave ==
  (op.name = "SaveCertificate" /\ IsErr(op.err)) =>
    LiveData(LiveDir) = LiveData(op.before)

\* the directory holds only files of mode 0600 and has mode 0700 itself
LivePrivate(d) ==
  /\ d.mode = "0700"
  /\ \A f \in {"cert", "chain", "fullchain", "privkey"} : d[f].exists => d[f].mode = "0600"
AccountPrivate(a) == a.exists => (a.dir = "0700" /\ a.mode = "0600")

\* C17: after a certificate save, live/{domain}/ has mode 0700 and each of its
\* files mode 0600; after a credential save, accounts/{provider}/{email}/ has
\* mode 0700 and credentials.json mode 0600 -- also for files that were there
\* before with other permissions.
C17_PrivateModes ==
  /\ OpDone("SaveCertificate") => LivePrivate(LiveDir)
  /\ OpDone("SaveAccount") => AccountPrivate(Accts[op.creds["Provider"]][op.email])

\* the config renewal.Save persists for the one it was given
Defaulted(cfg) ==
  IF cfg["BaseDir"] = "" THEN [cfg EXCEPT !["BaseDir"] = DefaultBaseDir] ELSE cfg

\* C18: renewal.Save rejects a config without a domain and writes nothing;
\* a Save that succeeds writes the one file of its domain and no other, the
\* file then holds exactly the config given, nothing of what was stored
\* before, with an empty base directory replaced by the default one; a
\* domain never saved has no file.
C18_SaveConfig ==
  /\ (op.name = "Save" /\ op.cfg["Domain"] = "") =>
       /\ op.err = Err("domain required")
       /\ configs = op.before
       /\ renewalDir = op.dir
  /\ OpDone("Save") =>
       /\ configs[op.cfg["Domain"]].exists
       /\ yamlUnmarshal(configs[op.cfg["Domain"]].data) = Defaulted(op.cfg)
       /\ \A d \in Domains \ {op.cfg["Domain"]} : configs[d] = op.before[d]
  /\ \A d \in Domains : ~savedCfgs[d].some => ~configs[d].exists
\* a config with no targets and no base directory was saved over a stored one
\* that had targets and a base directory of its own
C18_Witness ==
  /\ OpDone("Save")
  /\ op.cfg["Targets"] = << >>
  /\ op.cfg["BaseDir"] = ""
  /\ op.before[op.cfg["Domain"]].exists
  /\ yamlUnmarshal(op.before[op.cfg["Domain"]].data)["Targets"] # << >>
  /\ yamlUnmarshal(op.before[op.cfg["Domain"]].data)["BaseDir"] = OtherBaseDir

(***************************************************************************)
(* The setup flow's DigiCert config in the renewal engine, under Spec.     *)
(***************************************************************************)
\* the persisted config of d is the one the setup flow saves after a
\* DigiCert issuance: method "digicert", no provider
SetupDigiCert(d) ==
  /\ configs[d].exists
  /\ load(configs[d])["Method"] = "digicert"
  /\ load(configs[d])["Provider"] = ""
\* the errors renewOne returns for a config it has no branch for
Unsupported == { Err("unsupported method"), Err("unsupported provider") }

\* C19: a config the setup flow persisted after a DigiCert issuance is renewed
\* through a DigiCert provider: when RunAll attempts it, the DigiCert
\* credentials are looked up and the config is not rejected as an unsupported
\* method or provider.
C19_SetupConfigRenewable ==
  Walked =>
    \A d \in Domains :
      (SetupDigiCert(d) /\ trace[d].loaded /\ trace[d].due) =>
        /\ trace[d].credLoads = 1
        /\ \A k \in 1..Len(errs) : NamedBy(errs[k]) = d => errs[k].err \notin Unsupported

(***************************************************************************)
(* Properties of the ACME constructors, under SpecStore.                   *)
(***************************************************************************)
\* a constructor got as far as registering, and the server answered
Registered ==
  /\ op.name \in {"NewManager", "NewDigiCertACMEProvider"}
  /\ op.net.dir
  /\ op.name = "NewDigiCertACMEProvider" => op.kid # ""

\* C20: registration is idempotent for every ACME constructor, NewManager and
\* NewDigiCertACMEProvider alike: when the server answers that the account
\* already exists the constructor succeeds, and on any other registration
\* error it fails.
C20_IdempotentRegistration ==
  Registered =>
    /\ alreadyRegistered(op.net.reg) => ~IsErr(op.err)
    /\ (op.net.reg # "" /\ ~alreadyRegistered(op.net.reg)) => IsErr(op.err)

(***************************************************************************)
(* Further properties of the renewal engine, under Spec.                   *)
(***************************************************************************)
\* the run renewed d: renewOne was called for it and returned no error
Renewed(d) == trace[d].attempts = 1 /\ ~trace[d].failed /\ trace[d].saves = 1

\* C22: whenever RunAll has renewed a due domain whose config lists install
\* targets, the installer of each listed target was called for the domain
\* by the time the run reports on it.
C22_InstallsRenewed ==
  Walked =>
    \A d \in Domains :
      (configs[d].exists /\ Renewed(d)) =>
        trace[d].installed = load(configs[d])["Targets"]

(***************************************************************************)
(* Further properties of the stores, under SpecStore.                      *)
(***************************************************************************)
\* the secret fields of AccountCredentials
Secrets == {"EABHMACKey", "HMACKey", "APIKey"}
\* the text occurs as a value in the bytes of a credentials file
Holds(data, text) == \E k \in DOMAIN data : data[k] = text

\* C23: credentials are encrypted at rest: the bytes of a stored credentials
\* file never hold a secret (EAB HMAC key, HMAC key, API key) in the
\* plaintext that was passed to the save.
C23_EncryptedAtRest ==
  \A p \in Providers, e \in Emails :
    (savedCreds[DefaultBaseDir][p][e].some /\ Accts[p][e].exists) =>
      \A f \in Secrets :
        savedCreds[DefaultBaseDir][p][e].val[f] # "" =>
          ~Holds(Accts[p][e].data, savedCreds[DefaultBaseDir][p][e].val[f])

(***************************************************************************)
(* Properties of concurrent certificate saves, under SpecRace.             *)
(***************************************************************************)
\* the live file f holds what SaveCertificate writes there for the resource
FromResource(f, cert) ==
  /\ LiveDir[f].exists
  /\ LiveDir[f].data = LiveBytes(cert, f)
  /\ f = "privkey" => Len(cert.PrivateKey) > 0
\* both processes have returned from SaveCertificate, which had no error
BothSaved == \A p \in Procs : spc[p].at = "done"
\* cert.pem is of one process's resource and one of the files is of the other's
MixedIn(files) ==
  \E p \in Procs, q \in Procs :
    /\ p # q
    /\ FromResource("cert", spc[p].cert)
    /\ \E f \in files : FromResource(f, spc[q].cert)

StoreUntouched == live = op.before /\ archive = op.archived /\ op.saves = 0
\* renewOne did no more than look up the credentials
OnlyLookedUp == op.credLoads = 1 /\ op.constructed = 0 /\ op.requests = 0

\* C25: renewOne with provider "digicert" looks up the DigiCert REST
\* credentials of the config's email and, when the lookup fails, returns an
\* error without building a provider or sending a request; with provider
\* "letsencrypt" or none it returns the unsupported-method error unless the
\* method is "http-01"; with any other provider it returns the
\* unsupported-provider error; in these error cases the certificate store
\* is not written.
C25_RenewOneDispatch ==
  op.name = "renewOne" =>
    /\ op.cfg["Provider"] = "digicert" =>
         /\ op.credLoads = 1
         /\ IsErr(op.creds.err) =>
              (IsErr(op.err) /\ OnlyLookedUp /\ StoreUntouched)
    /\ (op.cfg["Provider"] \in {"letsencrypt", ""} /\ op.cfg["Method"] # "http-01") =>
         /\ op.err = Err("unsupported method")
         /\ op.credLoads = 0 /\ op.constructed = 0 /\ op.requests = 0
         /\ StoreUntouched
    /\ op.cfg["Provider"] \notin {"digicert", "letsencrypt", ""} =>
         /\ op.err = Err("unsupported provider")
         /\ op.credLoads = 0 /\ op.constructed = 0 /\ op.requests = 0
         /\ StoreUntouched
\* renewOne was called for a DigiCert config whose credential lookup fails,
\* on a store that already holds a certificate
C25_Witness ==
  /\ op.name = "renewOne"
  /\ op.cfg["Provider"] = "digicert"
  /\ IsErr(op.creds.err)
  /\ LiveDir.cert.exists

(***************************************************************************)
(* Renewal across runs, under Spec.                                        *)
(***************************************************************************)
\* the first PEM block of a file that has one
FirstBlock(data) ==
  data[CHOOSE n \in 1..Len(data) : data[n].pem /\ \A m \in 1..(n - 1) : ~data[m].pem]
\* the certificate file of d in the base directory its persisted config names
StoredCert(d) == live[load(configs[d])["BaseDir"]][d].cert
\* an earlier run saved the certificate of d, which has more than 30 days left
RenewedEarlier(d) ==
  /\ StoredCert(d).exists
  /\ DaysLeft(StoredCert(d).data) > RenewBefore
  /\ FirstBlock(StoredCert(d).data).sn < runs

\* C26: renewal is idempotent across runs: once a run has renewed a domain
\* and saved a certificate with more than 30 days left, a following run
\* finds the domain not due and does not issue again, whatever base
\* directory the persisted config carries.
C26_IdempotentRenewal ==
  Walked =>
    \A d \in Persisted :
      (trace[d].loaded /\ RenewedEarlier(d)) => trace[d].attempts = 0

(***************************************************************************)
(* Provider tags and slots of the credential store, under SpecStore.       *)
(***************************************************************************)
NotFound == Err("open credentials.json")

\* C27: after any sequence of credential saves, every record stored under
\* accounts/{p}/{e}/ carries the provider tag p, so neither DigiCert accessor
\* ever answers with the wrong-provider error; a lookup for an email never
\* saved under "digicert" fails as not found.
C27_TagMatchesSlot ==
  \A e \in Emails :
    /\ \A p \in Providers :
         Accts[p][e].exists => jsonUnmarshal(Accts[p][e].data)["Provider"] = p
    /\ GetDigiCertConfig(Accts, e).err # WrongProvider
    /\ GetDigiCertACMEConfig(Accts, e, DefaultBaseDir).err # WrongProvider
    /\ ~savedCreds[DefaultBaseDir]["digicert"][e].some =>
         /\ GetDigiCertConfig(Accts, e).err = NotFound
         /\ GetDigiCertACMEConfig(Accts, e, DefaultBaseDir).err = NotFound
\* Let's Encrypt credentials were saved for an email that has no DigiCert
\* record, and the DigiCert lookup for it answers not found
C27_Witness ==
  \E e \in Emails :
    /\ OnlyLetsEncrypt(e)
    /\ GetDigiCertConfig(Accts, e).err = NotFound

\* C28: after any sequence of successful SaveCertificate calls for a domain,
\* live privkey.pem, when it exists, is the private key of the resource that
\* live cert.pem is from; a resource without a key saved after one with a
\* key does not leave the earlier key beside the new certificate.
C28_KeyMatchesCert ==
  (OpDone("SaveCertificate") /\ LiveDir.privkey.exists) =>
    LiveDir.privkey.data = op.cert.PrivateKey

\* the record of the recorded SaveAccount's slot before the call held field f
HadField(f) == op.before.exists /\ f \in DOMAIN op.before.data
\* the recorded call saved DigiCert EAB credentials, or DigiCert REST ones
SavedEAB ==
  OpDone("SaveAccount") /\ op.creds["Provider"] = "digicert" /\ op.creds["EABKID"] # ""
SavedREST ==
  OpDone("SaveAccount") /\ op.creds["Provider"] = "digicert" /\ op.creds["HMACKey"] # ""

\* C29: DigiCert REST and EAB credentials of one email share the slot
\* accounts/digicert/{email}/ and a save replaces the whole record: after
\* SaveDigiCertAccount then SaveDigiCertACMEAccount, GetDigiCertConfig
\* succeeds with empty HMAC id, HMAC key and API key; after the saves in the
\* opposite order GetDigiCertACMEConfig succeeds with empty EAB key id and
\* HMAC secret.
C29_SharedSlotReplaced ==
  /\ (SavedEAB /\ HadField("HMACKey")) =>
       LET g == GetDigiCertConfig(Accts, op.email)
       IN  /\ ~IsErr(g.err)
           /\ g.val.HMACID = "" /\ g.val.HMACKey = "" /\ g.val.APIKey = ""
  /\ (SavedREST /\ HadField("EABKID")) =>
       LET g == GetDigiCertACMEConfig(Accts, op.email, DefaultBaseDir)
       IN  /\ ~IsErr(g.err)
           /\ g.val.EABKID = "" /\ g.val.EABHMACKey = ""
\* EAB credentials were saved over REST credentials that held an HMAC id,
\* an HMAC key and an API key
C29_Witness ==
  /\ SavedEAB
  /\ HadField("HMACKey") /\ HadField("HMACID") /\ HadField("APIKey")


(***************************************************************************)
(* Properties of the setup flow, under SpecSetup.                          *)
(***************************************************************************)
\* the run of the setup flow just made wrote the TLS config of its web server
TLSWritten ==
  /\ op.installed
  /\ tls[op.server].exists
  /\ tls[op.server].data =
       sslConf(op.server, SetupDomain, LoadCertPaths(DefaultBaseDir, SetupDomain))
\* the renewal config of the run is the one stored for the domain
ConfigPersisted ==
  /\ configs[SetupDomain].exists
  /\ yamlUnmarshal(configs[SetupDomain].data) = op.config
\* the run left the certificate store as it found it
NothingSaved ==
  /\ live[DefaultBaseDir][SetupDomain] = op.before.live
  /\ archive[DefaultBaseDir][SetupDomain] = op.before.archive

\* C30: in a setup run without --yes, an answer of yes followed by a
\* successful issuance and certificate save has the installer write the TLS
\* config and the renewal config of the domain persisted (its file being
\* writable); an answer of no ends the run before a certificate is requested
\* or saved.
C30_InteractiveInstall ==
  (op.name = "install" /\ ~op.assumeYes) =>
    /\ (op.answer /\ op.issued /\ op.saved) =>
         /\ TLSWritten
         /\ op.cfgWriteOK => ConfigPersisted
    /\ ~op.answer =>
         /\ ~op.requested
         /\ NothingSaved
         /\ op.err = NoErr

====
